---- MODULE Spec2Model ----
(***************************************************************************)
(* Protocol engine of the OPP Gen2 platform (mpf/platforms/opp/opp.py):    *)
(* the command dispatch, the resynchronizer (_parse_msg), the input diff   *)
(* engine and the discovery handshake of OPPSerialCommunicator.            *)
(*                                                                         *)
(* Bytes are integers 0..255.  A 32-bit word built from four message bytes *)
(* is kept as the set of its set bit positions (0 = least significant),    *)
(* a firmware version as the tuple of its four bytes, most significant     *)
(* first, because the values reach 0xffffffff.                             *)
(***************************************************************************)
EXTENDS Integers, Sequences, FiniteSets, TLC

(***************************************************************************)
(* Protocol constants (OppRs232Intf) and module constants of opp.py.       *)
(***************************************************************************)
INV_CMD == 240
EOM_CMD == 255
ILLEGAL_CMD == 254
GET_VERS_CMD == 2
READ_GEN2_INP_CMD == 8
GET_GEN2_CFG == 13
READ_MATRIX_INP == 25
CARD_ID_TYPE_MASK == 240
CARD_ID_GEN2_CARD == 32
NUM_G2_WING_PER_BRD == 4
WING_SOL == 1
WING_INP == 2
WING_INCAND == 3
WING_SW_MATRIX_OUT == 4
WING_NEO == 6
WING_HI_SIDE_INCAND == 7

\* MIN_FW = 0x00000100, BAD_FW_VERSION = 0x01020304, as byte tuples
MIN_FW == <<0, 0, 1, 0>>
BAD_FW_VERSION == <<1, 2, 3, 4>>
\* self.minVersion = 0xffffffff
InitMinVersion == <<255, 255, 255, 255>>

(***************************************************************************)
(* Bounds of the model.                                                    *)
(***************************************************************************)
\* the boards send more only while at most this many bytes are unread
MaxBacklog == 1
\* the device stops producing bad checksums once badCRC reached this
MaxBadCRC == 1
\* in the handshake specification the boards answer a probe after at most
\* this many unanswered ones
MaxBadProbes == 2
MaxCorrupt == 1
MaxLead == 2
\* a rule is set on a driver only while it has fewer switches than this
MaxSwitches == 2
\* the frames written since the last drain are counted up to this
MaxUndrained == 2

(***************************************************************************)
(* Bit operations on bytes.                                                *)
(***************************************************************************)
RECURSIVE BitAnd(_, _)
BitAnd(a, b) ==
    IF a = 0 \/ b = 0 THEN 0
    ELSE (a % 2) * (b % 2) + 2 * BitAnd(a \div 2, b \div 2)

RECURSIVE BitXor(_, _)
BitXor(a, b) ==
    IF a = 0 THEN b
    ELSE IF b = 0 THEN a
    ELSE ((a + b) % 2) + 2 * BitXor(a \div 2, b \div 2)

\* (msg[i] << 24) | (msg[i+1] << 16) | (msg[i+2] << 8) | msg[i+3]
\* as the set of bit positions that are 1
Word32(msg, i) ==
    {n \in 0..31 : (msg[i + 3 - (n \div 8)] \div (2 ^ (n % 8))) % 2 = 1}

\* a ^ b on words
WordXor(a, b) == (a \ b) \cup (b \ a)

\* version tuple a < version tuple b, as 32-bit unsigned numbers
RECURSIVE VersLessFrom(_, _, _)
VersLessFrom(a, b, i) ==
    IF i > 4 THEN FALSE
    ELSE IF a[i] # b[i] THEN a[i] < b[i]
    ELSE VersLessFrom(a, b, i + 1)

VersLess(a, b) == VersLessFrom(a, b, 1)

(***************************************************************************)
(* Frame codec: CRC-8, polynomial 0x07, start value 0xff, table driven.    *)
(***************************************************************************)
RECURSIVE Crc8Shift(_, _)
Crc8Shift(v, n) ==
    IF n = 0 THEN v
    ELSE Crc8Shift(IF v >= 128 THEN BitXor((2 * v) % 256, 7) ELSE 2 * v, n - 1)

CRC8_LOOKUP == [b \in 0..255 |-> Crc8Shift(b, 8)]

\* calc_crc8_part_msg(msg, start, num): indices are 0-based as in the code
RECURSIVE Crc8From(_, _, _, _)
Crc8From(msg, start, num, crc) ==
    IF num = 0 THEN crc
    ELSE Crc8From(msg, start + 1, num - 1, CRC8_LOOKUP[BitXor(crc, msg[start + 1])])

calc_crc8_part_msg(msg, start, num) == Crc8From(msg, start, num, 255)

calc_crc8_whole_msg(msg) == Crc8From(msg, 0, Len(msg), 255)

\* msg[a:b] of Python on a TLA+ sequence
Slice(s, a, b) ==
    IF a >= Len(s) THEN <<>>
    ELSE SubSeq(s, a + 1, IF b < Len(s) THEN b ELSE Len(s))

(***************************************************************************)
(* State.                                                                  *)
(***************************************************************************)
VARIABLES
    \* HardwarePlatform
    ports,            \* config['ports'], the chains in connection order
    opp_commands,     \* "initial" or "steady": which input handlers are in the table
    opp_connection,   \* chains registered by register_processor_connection
    opp_inputs,       \* list of input cards (digital and matrix)
    opp_incands,      \* list of incandescent cards
    opp_solenoid,     \* list of solenoid cards
    read_input_msg,   \* chain -> composite read-input message
    gen2AddrArr,      \* chain -> board addresses, in inventory order
    badCRC,
    minVersion,
    \* host (switch controller)
    emitted,          \* transitions emitted by the last dispatch, in order
    lastMsg,          \* the record last handed to process_received_message
    seeded,           \* history: indices of the cards of opp_inputs whose oldState
                      \* an initial handler has set from a checksum-valid record
    versions,         \* history: chain -> the version response dispatched in
                      \* its handshake
    \* OPPSerialCommunicator, one per chain
    partMsg,
    lost_synch,
    pc,               \* position of the chain's handshake / read task
    inParse,          \* TRUE while _parse_msg runs its loop
    strlen,
    message_found,
    count,            \* probe attempts of _identify_connection
    cards,            \* records still expected by the initial snapshot
    \* transport
    wire,             \* bytes sent by the boards, not yet read by the host
    written,          \* what the host wrote to the chain, in order
    pending,          \* history: frames sent by the boards that _parse_msg
                      \* has not consumed as a frame yet
    stream            \* the boards' repeated digital-read frame, the number of
                      \* corruptions of the stream so far, and frames sent
                      \* minus checksum-valid records delivered
VARIABLES
    \* HardwarePlatform: tasks
    poll_task,          \* self._poll_task
    light_update_task,  \* self._light_update_task
    done,               \* history: how _done ended for each task
    stopped,            \* history: stop() has returned
    \* transport, write side
    undrained,          \* chain -> frames written since the last drain
    link,               \* chain -> "up", or "down" when a write raises
    incandSent,         \* history: index in opp_incands -> the state last
                        \* handed to the transport
    \* drivers
    drivers,            \* number -> the OPPSolenoid configure_driver has set up
    lastCall            \* history: the last call of the host or step of a task

platVars == <<ports, opp_commands, opp_connection, opp_inputs, opp_incands,
              opp_solenoid, read_input_msg, gen2AddrArr, badCRC, minVersion>>
hostVars == <<emitted, lastMsg, seeded, versions>>
commVars == <<partMsg, lost_synch, pc, inParse, strlen, message_found, count, cards>>
wireVars == <<wire, written, pending>>
taskVars == <<light_update_task, done, stopped, undrained, link, incandSent>>
ruleVars == <<drivers, lastCall>>
engineVars == <<poll_task, taskVars, ruleVars>>
vars == <<platVars, hostVars, commVars, wireVars, stream, engineVars>>

(***************************************************************************)
(* Cards (opp_switch.py).                                                  *)
(***************************************************************************)
\* OPPInputCard(chain_serial, addr, mask, ...): oldState = 0
OPPInputCard(chain_serial, addr, mask) ==
    [chain_serial |-> chain_serial, addr |-> addr,
     cardNum |-> addr - CARD_ID_GEN2_CARD, isMatrix |-> FALSE,
     mask |-> mask, oldState |-> <<{}>>]

\* OPPMatrixCard(chain_serial, addr, ...): oldState = [0, 0]
OPPMatrixCard(chain_serial, addr) ==
    [chain_serial |-> chain_serial, addr |-> addr,
     cardNum |-> addr - CARD_ID_GEN2_CARD, isMatrix |-> TRUE,
     mask |-> 0..63, oldState |-> <<{}, {}>>]

\* OPPIncandCard(chain_serial, addr, mask, ...): oldState = newState = 0
OPPIncandCard(chain_serial, addr, mask) ==
    [chain_serial |-> chain_serial, addr |-> addr,
     cardNum |-> addr - CARD_ID_GEN2_CARD, mask |-> mask,
     oldState |-> {}, newState |-> {}]

\* OPPSolenoidCard(chain_serial, addr, mask, ...)
OPPSolenoidCard(chain_serial, addr, mask) ==
    [chain_serial |-> chain_serial, addr |-> addr,
     cardNum |-> addr - CARD_ID_GEN2_CARD, mask |-> mask]

\* inpAddrDict / matrixInpAddrDict lookup by chain_serial + '-' + str(addr):
\* index into opp_inputs of the card registered last under the key, 0 if none
AddrDict(inputs, chain_serial, addr, matrix) ==
    LET hits == {i \in 1..Len(inputs) :
                    /\ inputs[i].chain_serial = chain_serial
                    /\ inputs[i].addr = addr
                    /\ inputs[i].isMatrix = matrix}
    IN IF hits = {} THEN 0 ELSE CHOOSE i \in hits : \A j \in hits : j <= i

\* the platform as one value, for the handlers below
Plat ==
    [opp_commands |-> opp_commands, opp_connection |-> opp_connection,
     opp_inputs |-> opp_inputs, opp_incands |-> opp_incands,
     opp_solenoid |-> opp_solenoid, read_input_msg |-> read_input_msg,
     gen2AddrArr |-> gen2AddrArr, badCRC |-> badCRC, minVersion |-> minVersion,
     events |-> <<>>,      \* calls of process_switch_by_num made so far
     lost |-> {},          \* chains whose lost_synch() was called
     raised |-> "none"]    \* exception that left the handler

\* self.opp_connection[chain_serial].lost_synch()
LostSynchCall(P, chain_serial) ==
    IF chain_serial \in P.opp_connection
    THEN [P EXCEPT !.lost = @ \cup {chain_serial}]
    ELSE [P EXCEPT !.raised = "KeyError"]

\* machine.switch_controller.process_switch_by_num(state, num, platform)
\* the callback is given the platform (platform=self): the oldState of the
\* cards that it can read at this moment is kept with the call
process_switch_by_num(P, state, num) ==
    [P EXCEPT !.events =
        Append(@, [state |-> state, num |-> num,
                   oldState |-> [i \in 1..Len(P.opp_inputs) |->
                                    P.opp_inputs[i].oldState]])]

(***************************************************************************)
(* Input diff engine.                                                      *)
(***************************************************************************)
\* DiffBits with the polarity of the reported state inverted; the properties of
\* the diff engine must tell it from DiffBits
RECURSIVE DiffBitsActiveHigh(_, _, _, _, _)
DiffBitsActiveHigh(P, opp_inp, changes, new_state, index) ==
    IF index = 32 THEN P
    ELSE IF index \in changes
    THEN DiffBitsActiveHigh(process_switch_by_num(P,
                      IF index \in new_state THEN 1 ELSE 0,
                      <<opp_inp.chain_serial, opp_inp.cardNum, index>>),
                  opp_inp, changes, new_state, index + 1)
    ELSE DiffBitsActiveHigh(P, opp_inp, changes, new_state, index + 1)

\* the loop "for index in range(0, 32)" of read_gen2_inp_resp from index on
RECURSIVE DiffBits(_, _, _, _, _)
DiffBits(P, opp_inp, changes, new_state, index) ==
    IF index = 32 THEN P
    ELSE IF index \in changes
    THEN DiffBits(process_switch_by_num(P,
                      IF index \notin new_state THEN 1 ELSE 0,
                      <<opp_inp.chain_serial, opp_inp.cardNum, index>>),
                  opp_inp, changes, new_state, index + 1)
    ELSE DiffBits(P, opp_inp, changes, new_state, index + 1)

read_gen2_inp_resp_initial(P, chain_serial, msg) ==
    IF Len(msg) < 7 THEN [P EXCEPT !.raised = "AssertionError"]
    ELSE IF msg[7] # calc_crc8_part_msg(msg, 0, 6)
    THEN [P EXCEPT !.badCRC = @ + 1]
    ELSE LET i == AddrDict(P.opp_inputs, chain_serial, msg[1], FALSE)
         IN IF i = 0 THEN [P EXCEPT !.raised = "KeyError"]
            ELSE [P EXCEPT !.opp_inputs[i].oldState = <<Word32(msg, 3)>>]

\* read_gen2_inp_resp that counts a bad checksum and goes on to use the record;
\* the checksum properties must tell it from read_gen2_inp_resp
read_gen2_inp_resp_unchecked(P, chain_serial, msg) ==
    IF Len(msg) < 7 THEN LostSynchCall(P, chain_serial)
    ELSE LET P0 == IF msg[7] # calc_crc8_part_msg(msg, 0, 6)
                   THEN [P EXCEPT !.badCRC = @ + 1] ELSE P
             i == AddrDict(P.opp_inputs, chain_serial, msg[1], FALSE)
         IN IF i = 0 THEN [P0 EXCEPT !.raised = "KeyError"]
            ELSE LET opp_inp == P0.opp_inputs[i]
                     new_state == Word32(msg, 3)
                     changes == WordXor(opp_inp.oldState[1], new_state)
                     Q == DiffBits(P0, opp_inp, changes, new_state, 0)
                 IN [Q EXCEPT !.opp_inputs[i].oldState = <<new_state>>]

\* read_gen2_inp_resp that reports the changes and forgets to keep the new
\* state; the properties of a repeated read must tell it from
\* read_gen2_inp_resp
read_gen2_inp_resp_forgetful(P, chain_serial, msg) ==
    IF Len(msg) < 7 THEN LostSynchCall(P, chain_serial)
    ELSE IF msg[7] # calc_crc8_part_msg(msg, 0, 6)
    THEN [P EXCEPT !.badCRC = @ + 1]
    ELSE LET i == AddrDict(P.opp_inputs, chain_serial, msg[1], FALSE)
         IN IF i = 0 THEN [P EXCEPT !.raised = "KeyError"]
            ELSE LET opp_inp == P.opp_inputs[i]
                     new_state == Word32(msg, 3)
                     changes == WordXor(opp_inp.oldState[1], new_state)
                 IN DiffBits(P, opp_inp, changes, new_state, 0)

read_gen2_inp_resp(P, chain_serial, msg) ==
    IF Len(msg) < 7 THEN LostSynchCall(P, chain_serial)
    ELSE IF msg[7] # calc_crc8_part_msg(msg, 0, 6)
    THEN [P EXCEPT !.badCRC = @ + 1]
    ELSE LET i == AddrDict(P.opp_inputs, chain_serial, msg[1], FALSE)
         IN IF i = 0 THEN [P EXCEPT !.raised = "KeyError"]
            ELSE LET opp_inp == P.opp_inputs[i]
                     new_state == Word32(msg, 3)
                     changes == WordXor(opp_inp.oldState[1], new_state)
                     Q == DiffBits(P, opp_inp, changes, new_state, 0)
                 IN [Q EXCEPT !.opp_inputs[i].oldState = <<new_state>>]

read_matrix_inp_resp_initial(P, chain_serial, msg) ==
    IF Len(msg) < 11 THEN [P EXCEPT !.raised = "AssertionError"]
    ELSE IF msg[11] # calc_crc8_part_msg(msg, 0, 10)
    THEN [P EXCEPT !.badCRC = @ + 1]
    ELSE LET i == AddrDict(P.opp_inputs, chain_serial, msg[1], TRUE)
         IN IF i = 0 THEN [P EXCEPT !.raised = "KeyError"]
            ELSE [P EXCEPT !.opp_inputs[i].oldState =
                               <<Word32(msg, 3), Word32(msg, 7)>>]

\* one pass of "for bank in range(0, 2)" of read_matrix_inp_resp
MatrixBank(P, i, new_state, bank) ==
    LET opp_inp == P.opp_inputs[i]
        changes == WordXor(opp_inp.oldState[bank + 1], new_state[bank + 1])
        Q == DiffBits(P, opp_inp, changes, new_state[bank + 1], 0)
    IN [Q EXCEPT !.opp_inputs[i].oldState[bank + 1] = new_state[bank + 1]]

read_matrix_inp_resp(P, chain_serial, msg) ==
    IF Len(msg) < 11 THEN LostSynchCall(P, chain_serial)
    ELSE IF msg[11] # calc_crc8_part_msg(msg, 0, 10)
    THEN [P EXCEPT !.badCRC = @ + 1]
    ELSE LET i == AddrDict(P.opp_inputs, chain_serial, msg[1], TRUE)
         IN IF i = 0 THEN [P EXCEPT !.raised = "KeyError"]
            ELSE LET new_state == <<Word32(msg, 3), Word32(msg, 7)>>
                 IN MatrixBank(MatrixBank(P, i, new_state, 0), i, new_state, 1)

\* the identifiers get_hw_switch_states reports for one card
HwKeys(opp_inp) ==
    IF ~opp_inp.isMatrix
    THEN {<<opp_inp.chain_serial, opp_inp.cardNum, index>> :
             index \in opp_inp.mask \cap (0..31)}
    ELSE {<<opp_inp.chain_serial, opp_inp.cardNum, index + 32>> : index \in 0..63}

\* the value get_hw_switch_states stores for identifier num of the card
HwValue(opp_inp, num) ==
    IF ~opp_inp.isMatrix
    THEN IF num[3] \notin opp_inp.oldState[1] THEN 1 ELSE 0
    ELSE LET index == num[3] - 32
         IN IF (index % 32) \notin opp_inp.oldState[(index \div 32) + 1]
            THEN 1 ELSE 0

\* get_hw_switch_states(): a later card overwrites the entry of an earlier one
get_hw_switch_states(inputs) ==
    [num \in UNION {HwKeys(inputs[i]) : i \in 1..Len(inputs)} |->
        LET i == CHOOSE i \in 1..Len(inputs) :
                     /\ num \in HwKeys(inputs[i])
                     /\ \A j \in 1..Len(inputs) : num \in HwKeys(inputs[j]) => j <= i
        IN HwValue(inputs[i], num)]

(***************************************************************************)
(* Handshake responses: inventory, configuration, version.                 *)
(***************************************************************************)
\* the loop of inv_resp from index on (index is 0-based as in the code)
RECURSIVE InvLoop(_, _, _, _)
InvLoop(P, chain_serial, msg, index) ==
    IF index >= Len(msg) THEN [P EXCEPT !.raised = "IndexError"]
    ELSE IF msg[index + 1] = EOM_CMD THEN P
    ELSE IF BitAnd(msg[index + 1], CARD_ID_TYPE_MASK) = CARD_ID_GEN2_CARD
    THEN InvLoop([P EXCEPT !.gen2AddrArr[chain_serial] = Append(@, msg[index + 1])],
                 chain_serial, msg, index + 1)
    ELSE InvLoop(P, chain_serial, msg, index + 1)

inv_resp(P, chain_serial, msg) ==
    InvLoop([P EXCEPT !.gen2AddrArr = (chain_serial :> <<>>) @@ @],
            chain_serial, msg, 1)

\* an input-read sub-frame of the composite read-input message
ReadInpFrame(addr, cmd, zeros) ==
    LET body == <<addr, cmd>> \o [k \in 1..zeros |-> 0]
    IN Append(body, calc_crc8_whole_msg(body))

\* the masks _parse_gen2_board accumulates over the wing slots of msg
WingBits(msg, wings, width, per) ==
    UNION {IF msg[3 + w] \in wings THEN (per * w)..(per * w + width - 1) ELSE {}
           : w \in 0..(NUM_G2_WING_PER_BRD - 1)}

\* _parse_gen2_board(chain_serial, msg, read_input_msg); PR = [P, rim]
parse_gen2_board(PR, chain_serial, msg) ==
    LET sol_mask == WingBits(msg, {WING_SOL}, 4, 4)
        inp_mask == WingBits(msg, {WING_SOL}, 4, 8) \cup WingBits(msg, {WING_INP}, 8, 8)
        incand_mask == WingBits(msg, {WING_INCAND, WING_HI_SIDE_INCAND}, 8, 8)
        has_matrix == \E w \in 0..(NUM_G2_WING_PER_BRD - 1) : msg[3 + w] = WING_SW_MATRIX_OUT
        P1 == IF incand_mask # {}
              THEN [PR.P EXCEPT !.opp_incands =
                        Append(@, OPPIncandCard(chain_serial, msg[1], incand_mask))]
              ELSE PR.P
        P2 == IF sol_mask # {}
              THEN [P1 EXCEPT !.opp_solenoid =
                        Append(@, OPPSolenoidCard(chain_serial, msg[1], sol_mask))]
              ELSE P1
        P3 == IF inp_mask # {}
              THEN [P2 EXCEPT !.opp_inputs =
                        Append(@, OPPInputCard(chain_serial, msg[1], inp_mask))]
              ELSE P2
        r3 == IF inp_mask # {}
              THEN PR.rim \o ReadInpFrame(msg[1], READ_GEN2_INP_CMD, 4)
              ELSE PR.rim
        P4 == IF has_matrix
              THEN [P3 EXCEPT !.opp_inputs =
                        Append(@, OPPMatrixCard(chain_serial, msg[1]))]
              ELSE P3
        r4 == IF has_matrix
              THEN r3 \o ReadInpFrame(msg[1], READ_MATRIX_INP, 8)
              ELSE r3
    IN [P |-> P4, rim |-> r4]

\* the "while True" loop of get_gen2_cfg_resp from curr_index on
RECURSIVE CfgLoop(_, _, _, _)
CfgLoop(PR, chain_serial, msg, curr_index) ==
    IF Len(msg) < curr_index + 7
    THEN [PR EXCEPT !.P = LostSynchCall(@, chain_serial)]
    ELSE IF msg[curr_index + 7] # calc_crc8_part_msg(msg, curr_index, 6)
    THEN [PR EXCEPT !.P.badCRC = @ + 1]
    ELSE LET Q == parse_gen2_board(PR, chain_serial,
                                   Slice(msg, curr_index, curr_index + 6))
         IN IF Len(msg) > curr_index + 7 /\ msg[curr_index + 8] = EOM_CMD
            THEN Q
            ELSE IF Len(msg) > curr_index + 8 /\ msg[curr_index + 9] = GET_GEN2_CFG
            THEN CfgLoop(Q, chain_serial, msg, curr_index + 7)
            ELSE [Q EXCEPT !.P = LostSynchCall(@, chain_serial)]

get_gen2_cfg_resp(P, chain_serial, msg) ==
    LET R == CfgLoop([P |-> P, rim |-> <<>>], chain_serial, msg, 0)
    IN IF R.P.raised # "none" THEN R.P
       ELSE [R.P EXCEPT !.read_input_msg =
                 (chain_serial :> Append(R.rim, EOM_CMD)) @@ @]

\* the "while True" loop of vers_resp from curr_index on
RECURSIVE VersLoop(_, _, _, _)
VersLoop(P, chain_serial, msg, curr_index) ==
    IF Len(msg) < curr_index + 7 THEN LostSynchCall(P, chain_serial)
    ELSE IF msg[curr_index + 7] # calc_crc8_part_msg(msg, curr_index, 6)
    THEN [P EXCEPT !.badCRC = @ + 1]
    ELSE LET version == SubSeq(msg, curr_index + 3, curr_index + 6)
             Q == IF VersLess(version, P.minVersion)
                  THEN [P EXCEPT !.minVersion = version] ELSE P
         IN IF version = BAD_FW_VERSION
            THEN [Q EXCEPT !.raised = "AssertionError"]
            ELSE IF Len(msg) > curr_index + 7 /\ msg[curr_index + 8] = EOM_CMD
            THEN Q
            ELSE IF Len(msg) > curr_index + 8 /\ msg[curr_index + 9] = GET_VERS_CMD
            THEN VersLoop(Q, chain_serial, msg, curr_index + 7)
            ELSE LostSynchCall(Q, chain_serial)

vers_resp(P, chain_serial, msg) == VersLoop(P, chain_serial, msg, 0)

(***************************************************************************)
(* Command dispatch.                                                       *)
(***************************************************************************)
\* OppRs232Intf.ILLEGAL_CMD and OppRs232Intf.EOM_CMD are bytes objects: used as
\* cmd they are no key of opp_commands, whose keys are integers
BytesObject == 0 - 1

CommandOf(msg) ==
    IF Len(msg) >= 1
    THEN IF BitAnd(msg[1], 224) = 32
         THEN IF Len(msg) >= 2 THEN msg[2] ELSE BytesObject
         ELSE IF msg[1] = INV_CMD \/ msg[1] = EOM_CMD THEN msg[1]
         ELSE BytesObject
    ELSE BytesObject

process_received_message(P, chain_serial, msg) ==
    LET cmd == CommandOf(msg)
    IN CASE cmd = INV_CMD -> inv_resp(P, chain_serial, msg)
         [] cmd = EOM_CMD -> P
         [] cmd = GET_GEN2_CFG -> get_gen2_cfg_resp(P, chain_serial, msg)
         [] cmd = GET_VERS_CMD -> vers_resp(P, chain_serial, msg)
         [] cmd = READ_GEN2_INP_CMD ->
                IF P.opp_commands = "initial"
                THEN read_gen2_inp_resp_initial(P, chain_serial, msg)
                ELSE read_gen2_inp_resp(P, chain_serial, msg)
         [] cmd = READ_MATRIX_INP ->
                IF P.opp_commands = "initial"
                THEN read_matrix_inp_resp_initial(P, chain_serial, msg)
                ELSE read_matrix_inp_resp(P, chain_serial, msg)
         [] OTHER -> LostSynchCall(P, chain_serial)

(***************************************************************************)
(* OPPSerialCommunicator: the resynchronizer.                              *)
(***************************************************************************)
IsGen2Addr(b) == BitAnd(b, 224) = 32

\* msg is an input-read record long enough to carry its checksum byte
IsDigRecord(msg) ==
    Len(msg) >= 7 /\ IsGen2Addr(msg[1]) /\ msg[2] = READ_GEN2_INP_CMD
IsMatRecord(msg) ==
    Len(msg) >= 11 /\ IsGen2Addr(msg[1]) /\ msg[2] = READ_MATRIX_INP
IsInputRecord(msg) == IsDigRecord(msg) \/ IsMatRecord(msg)

ChecksumPos(msg) == IF msg[2] = READ_GEN2_INP_CMD THEN 7 ELSE 11

ChecksumMatches(msg) ==
    msg[ChecksumPos(msg)] = calc_crc8_part_msg(msg, 0, ChecksumPos(msg) - 1)

\* the cards whose oldState an initial handler sets when msg is dispatched
Seeds(c, msg) ==
    IF opp_commands = "initial" /\ IsInputRecord(msg) /\ ChecksumMatches(msg)
    THEN {AddrDict(opp_inputs, c, msg[1], IsMatRecord(msg))} \ {0}
    ELSE {}

\* value of pending once _parse_msg consumed bytes that are not the next frame
Diverged == << <<0 - 1>> >>

NoMsg == [chain_serial |-> "", msg |-> <<>>, via |-> "none"]

Failed == \E c \in DOMAIN pc : pc[c] = "failed"
Parsing == \E c \in DOMAIN inParse : inParse[c]

\* the platform and host variables take the values of P
SetPlat(P) ==
    /\ opp_connection' = P.opp_connection
    /\ opp_inputs' = P.opp_inputs
    /\ opp_incands' = P.opp_incands
    /\ opp_solenoid' = P.opp_solenoid
    /\ read_input_msg' = P.read_input_msg
    /\ gen2AddrArr' = P.gen2AddrArr
    /\ badCRC' = P.badCRC
    /\ minVersion' = P.minVersion
    /\ emitted' = P.events

\* nothing is dispatched in this step
NoDispatch ==
    /\ UNCHANGED <<opp_connection, opp_inputs, opp_incands, opp_solenoid,
                   read_input_msg, gen2AddrArr, badCRC, minVersion>>
    /\ emitted' = <<>>
    /\ lastMsg' = NoMsg
    /\ seeded' = seeded
    /\ versions' = versions

\* number of leading bytes the inner "while strlen > 0" loop discards
RECURSIVE SkipCount(_, _)
SkipCount(buf, n) ==
    IF n <= 0 THEN 0
    ELSE IF BitAnd(buf[1], 224) = 32 THEN 0
    ELSE 1 + SkipCount(Tail(buf), n - 1)

\* _parse_msg, first part: self.partMsg += msg
ParseBegin(c, msg) ==
    /\ partMsg' = [partMsg EXCEPT ![c] = @ \o msg]
    /\ strlen' = [strlen EXCEPT ![c] = Len(partMsg[c]) + Len(msg)]
    /\ message_found' = [message_found EXCEPT ![c] = 0]
    /\ inParse' = [inParse EXCEPT ![c] = TRUE]

\* the task running _parse_msg ends with the exception of a handler
ParseRaise(c) ==
    /\ pc' = [pc EXCEPT ![c] = IF @ = "snapshot" THEN "failed" ELSE "crashed"]
    /\ inParse' = [inParse EXCEPT ![c] = FALSE]
    /\ UNCHANGED <<partMsg, strlen, message_found, lost_synch>>

\* a record of n bytes is handed to the dispatch and removed from the buffer
ParseRecord(c, n) ==
    LET msg == Slice(partMsg[c], 0, n)
        P == process_received_message(Plat, c, msg)
    IN /\ SetPlat(P)
       /\ lastMsg' = [chain_serial |-> c, msg |-> msg, via |-> "parse_msg"]
       /\ seeded' = seeded \cup Seeds(c, msg)
       /\ versions' = versions
       /\ pending' = [pending EXCEPT ![c] =
               IF @ # <<>> /\ Head(@) = msg THEN Tail(@) ELSE Diverged]
       /\ IF P.raised # "none"
          THEN ParseRaise(c)
          ELSE /\ message_found' = [message_found EXCEPT ![c] = @ + 1]
               /\ partMsg' = [partMsg EXCEPT ![c] = Slice(@, n, Len(@))]
               /\ strlen' = [strlen EXCEPT ![c] = @ - n]
               /\ lost_synch' = [lost_synch EXCEPT ![c] = @ \/ c \in P.lost]
               /\ UNCHANGED <<pc, inParse>>

\* bytes are discarded without a dispatch
ParseDrop(c, n, lost) ==
    /\ partMsg' = [partMsg EXCEPT ![c] = Slice(@, n, Len(@))]
    /\ strlen' = [strlen EXCEPT ![c] = @ - n]
    /\ lost_synch' = [lost_synch EXCEPT ![c] = lost]
    /\ pending' = [pending EXCEPT ![c] =
            IF n = 0 THEN @
            ELSE IF n = 1 /\ ~lost /\ @ # <<>> /\ Head(@) = <<EOM_CMD>> THEN Tail(@)
            ELSE Diverged]
    /\ NoDispatch
    /\ UNCHANGED <<pc, inParse, message_found>>

\* one iteration of "while strlen >= 7" of _parse_msg
\* the branches of the loop with an end-marker that is left in the buffer;
\* the termination property must tell it from ParseStep
ParseStepKeepsEom(c) ==
    IF lost_synch[c]
    THEN LET k == SkipCount(partMsg[c], strlen[c])
         IN [record |-> FALSE, n |-> k, lost |-> k >= strlen[c]]
    ELSE IF BitAnd(partMsg[c][1], 224) = 32
    THEN IF partMsg[c][2] = READ_GEN2_INP_CMD
         THEN [record |-> TRUE, n |-> 7, lost |-> FALSE]
         ELSE IF partMsg[c][2] = READ_MATRIX_INP
         THEN [record |-> TRUE, n |-> 11, lost |-> FALSE]
         ELSE [record |-> FALSE, n |-> 2, lost |-> TRUE]
    ELSE IF partMsg[c][1] = EOM_CMD
    THEN [record |-> FALSE, n |-> 0, lost |-> FALSE]
    ELSE [record |-> FALSE, n |-> 1, lost |-> TRUE]

\* the branch an iteration of the loop takes: whether it hands a record to
\* the dispatch, the bytes it cuts off the buffer and the desynchronized flag
\* it leaves (for a record: unless the handler sets it)
ParseStep(c) ==
    IF lost_synch[c]
    THEN LET k == SkipCount(partMsg[c], strlen[c])
         IN [record |-> FALSE, n |-> k, lost |-> k >= strlen[c]]
    ELSE IF BitAnd(partMsg[c][1], 224) = 32
    THEN IF partMsg[c][2] = READ_GEN2_INP_CMD
         THEN [record |-> TRUE, n |-> 7, lost |-> FALSE]
         ELSE IF partMsg[c][2] = READ_MATRIX_INP
         THEN [record |-> TRUE, n |-> 11, lost |-> FALSE]
         ELSE [record |-> FALSE, n |-> 2, lost |-> TRUE]
    ELSE IF partMsg[c][1] = EOM_CMD
    THEN [record |-> FALSE, n |-> 1, lost |-> FALSE]
    ELSE [record |-> FALSE, n |-> 1, lost |-> TRUE]

ParseIter(c) ==
    /\ inParse[c]
    /\ strlen[c] >= 7
    /\ IF ParseStep(c).record
       THEN ParseRecord(c, ParseStep(c).n)
       ELSE ParseDrop(c, ParseStep(c).n, ParseStep(c).lost)
    /\ UNCHANGED <<ports, opp_commands, count, cards, wire, written>>

\* register_processor_connection, the last statement of _identify_connection
Register(c) ==
    /\ opp_connection' = opp_connection \cup {c}
    /\ pc' = [pc EXCEPT ![c] = "ready"]

\* _parse_msg returns message_found; in the initial snapshot the caller
\* counts the records down and registers the chain
ParseReturn(c) ==
    /\ inParse[c]
    /\ strlen[c] < 7
    /\ inParse' = [inParse EXCEPT ![c] = FALSE]
    /\ IF pc[c] = "snapshot"
       THEN /\ cards' = [cards EXCEPT ![c] = @ - message_found[c]]
            /\ IF cards[c] - message_found[c] <= 0
               THEN Register(c)
               ELSE UNCHANGED <<pc, opp_connection>>
       ELSE UNCHANGED <<pc, opp_connection, cards>>
    /\ emitted' = <<>>
    /\ lastMsg' = NoMsg
    /\ seeded' = seeded
    /\ versions' = versions
    /\ UNCHANGED <<ports, opp_commands, opp_inputs, opp_incands, opp_solenoid,
                   read_input_msg, gen2AddrArr, badCRC, minVersion,
                   partMsg, lost_synch, strlen, message_found, count, wireVars>>

(***************************************************************************)
(* OPPSerialCommunicator._identify_connection: the handshake.              *)
(* Each action runs from one suspension point (a read) to the next.        *)
(***************************************************************************)
\* what send_get_gen2_cfg_cmd / send_vers_cmd write for the boards addrs
SendCmd(addrs, cmd) ==
    LET RECURSIVE Frames(_)
        Frames(i) == IF i > Len(addrs) THEN <<>>
                     ELSE ReadInpFrame(addrs[i], cmd, 4) \o Frames(i + 1)
    IN Append(Frames(1), EOM_CMD)

Write(c, msg) == written' = [written EXCEPT ![c] = Append(@, msg)]

\* communicators are constructed port by port; each constructor runs its
\* handshake to the end
IsTurnOf(c) ==
    \E i \in 1..Len(ports) :
        /\ ports[i] = c
        /\ \A j \in 1..(i - 1) : pc[ports[j]] \in {"ready", "crashed"}

HsFail(c) == pc' = [pc EXCEPT ![c] = "failed"]

\* write EOM, sleep, read(1000): whatever was buffered is discarded
HsFlush(c) ==
    /\ pc[c] = "idle" /\ IsTurnOf(c) /\ ~Failed /\ ~Parsing
    /\ Write(c, <<EOM_CMD>>)
    /\ wire' = [wire EXCEPT ![c] = <<>>]
    /\ pc' = [pc EXCEPT ![c] = "probe"]
    /\ NoDispatch
    /\ UNCHANGED <<ports, opp_commands, partMsg, lost_synch, inParse, strlen,
                   message_found, count, cards, pending>>

\* the probe loop without its limit of 100 passes; the termination property
\* must tell it from HsProbe
HsProbeForever(c, resp) ==
    /\ pc[c] = "probe" /\ ~Parsing
    /\ count' = [count EXCEPT ![c] = @ + 1]
    /\ IF Len(resp) >= 1 /\ resp[1] = EOM_CMD
       THEN /\ written' = [written EXCEPT ![c] =
                               @ \o << <<EOM_CMD>>, <<INV_CMD, EOM_CMD>> >>]
            /\ pc' = [pc EXCEPT ![c] = "inv"]
       ELSE /\ Write(c, <<EOM_CMD>>)
            /\ UNCHANGED pc
    /\ NoDispatch
    /\ UNCHANGED <<ports, opp_commands, partMsg, lost_synch, inParse, strlen,
                   message_found, cards, wire, pending>>

\* one pass of the probe loop: write EOM, sleep, resp = read(30); when the
\* loop ends the inventory command is written
HsProbe(c, resp) ==
    /\ pc[c] = "probe" /\ ~Parsing
    /\ count' = [count EXCEPT ![c] = @ + 1]
    /\ IF Len(resp) >= 1 /\ resp[1] = EOM_CMD
       THEN /\ written' = [written EXCEPT ![c] =
                               @ \o << <<EOM_CMD>>, <<INV_CMD, EOM_CMD>> >>]
            /\ pc' = [pc EXCEPT ![c] = "inv"]
       ELSE /\ Write(c, <<EOM_CMD>>)
            /\ IF count[c] + 1 = 100 THEN HsFail(c) ELSE UNCHANGED pc
    /\ NoDispatch
    /\ UNCHANGED <<ports, opp_commands, partMsg, lost_synch, inParse, strlen,
                   message_found, cards, wire, pending>>

\* _identify_connection that sends the version query right after the inventory
\* response, leaving the configuration query out; the ordering property must
\* tell it from HsInventory
HsInventorySkipsCfg(c, resp) ==
    /\ pc[c] = "inv" /\ ~Parsing
    /\ LET P == process_received_message(Plat, c, resp)
       IN /\ SetPlat(P)
          /\ lastMsg' = [chain_serial |-> c, msg |-> resp, via |-> "identify"]
          /\ seeded' = seeded \cup Seeds(c, resp)
          /\ versions' = versions
          /\ IF P.raised # "none" \/ c \notin DOMAIN P.gen2AddrArr
             THEN HsFail(c) /\ UNCHANGED written
             ELSE /\ Write(c, SendCmd(P.gen2AddrArr[c], GET_VERS_CMD))
                  /\ pc' = [pc EXCEPT ![c] = "vers"]
    /\ UNCHANGED <<ports, opp_commands, partMsg, lost_synch, inParse, strlen,
                   message_found, count, cards, wire, pending>>

\* resp = readuntil(0xff); process_received_message; send_get_gen2_cfg_cmd
HsInventory(c, resp) ==
    /\ pc[c] = "inv" /\ ~Parsing
    /\ LET P == process_received_message(Plat, c, resp)
       IN /\ SetPlat(P)
          /\ lastMsg' = [chain_serial |-> c, msg |-> resp, via |-> "identify"]
          /\ seeded' = seeded \cup Seeds(c, resp)
          /\ versions' = versions
          /\ IF P.raised # "none" \/ c \notin DOMAIN P.gen2AddrArr
             THEN HsFail(c) /\ UNCHANGED written
             ELSE /\ Write(c, SendCmd(P.gen2AddrArr[c], GET_GEN2_CFG))
                  /\ pc' = [pc EXCEPT ![c] = "cfg"]
    /\ UNCHANGED <<ports, opp_commands, partMsg, lost_synch, inParse, strlen,
                   message_found, count, cards, wire, pending>>

\* resp = readuntil(0xff, 6); process_received_message; send_vers_cmd
HsCfg(c, resp) ==
    /\ pc[c] = "cfg" /\ ~Parsing
    /\ LET P == process_received_message(Plat, c, resp)
       IN /\ SetPlat(P)
          /\ lastMsg' = [chain_serial |-> c, msg |-> resp, via |-> "identify"]
          /\ seeded' = seeded \cup Seeds(c, resp)
          /\ versions' = versions
          /\ IF P.raised # "none"
             THEN HsFail(c) /\ UNCHANGED written
             ELSE /\ Write(c, SendCmd(P.gen2AddrArr[c], GET_VERS_CMD))
                  /\ pc' = [pc EXCEPT ![c] = "vers"]
    /\ UNCHANGED <<ports, opp_commands, partMsg, lost_synch, inParse, strlen,
                   message_found, count, cards, wire, pending>>

\* resp = readuntil(0xff, 6); process_received_message; the firmware check;
\* the composite read-input message is written
HsVers(c, resp) ==
    /\ pc[c] = "vers" /\ ~Parsing
    /\ LET P == process_received_message(Plat, c, resp)
       IN /\ SetPlat(P)
          /\ lastMsg' = [chain_serial |-> c, msg |-> resp, via |-> "identify"]
          /\ seeded' = seeded \cup Seeds(c, resp)
          /\ versions' = [versions EXCEPT ![c] = resp]
          /\ IF \/ P.raised # "none"
                \/ VersLess(P.minVersion, MIN_FW)
                \/ c \notin DOMAIN P.read_input_msg
             THEN HsFail(c) /\ UNCHANGED <<written, cards>>
             ELSE /\ Write(c, P.read_input_msg[c])
                  /\ cards' = [cards EXCEPT ![c] =
                         Cardinality({i \in 1..Len(P.opp_inputs) :
                                         P.opp_inputs[i].chain_serial = c})]
                  /\ pc' = [pc EXCEPT ![c] = "snapshot"]
    /\ UNCHANGED <<ports, opp_commands, partMsg, lost_synch, inParse, strlen,
                   message_found, count, wire, pending>>

\* index of the first end-marker in buf, 0 if none
FirstEom(buf) ==
    IF \E i \in 1..Len(buf) : buf[i] = EOM_CMD
    THEN CHOOSE i \in 1..Len(buf) :
             buf[i] = EOM_CMD /\ \A j \in 1..(i - 1) : buf[j] # EOM_CMD
    ELSE 0

\* initial snapshot: resp = readuntil(0xff); cards -= self._parse_msg(resp)
HsSnapshotRead(c) ==
    /\ pc[c] = "snapshot" /\ ~Parsing
    /\ FirstEom(wire[c]) > 0
    /\ ParseBegin(c, SubSeq(wire[c], 1, FirstEom(wire[c])))
    /\ wire' = [wire EXCEPT ![c] = Slice(@, FirstEom(@), Len(@))]
    /\ NoDispatch
    /\ UNCHANGED <<ports, opp_commands, lost_synch, pc, count, cards, written,
                   pending>>

\* a task: "none" is the attribute's initial None; a created task is "ready"
\* to run, then waits at "drain" or "sleep" with the index i of the chain it
\* is at, and ends "cancelled" or "failed" with the error that left it
NoTask == [state |-> "none", i |-> 0, error |-> "none", created |-> 0]
\* loop.create_task(...)
CreateTask == [state |-> "ready", i |-> 0, error |-> "none", created |-> 1]

\* no call yet
NoCall == [op |-> "none", number |-> <<>>, switch |-> <<>>, use_hold |-> {},
           raised |-> "none", frames |-> <<>>, config |-> <<>>]

\* initialize() that swaps the handlers without waiting for the handshakes of
\* all ports; the handler-table properties must tell it from Initialize
InitializeEarly ==
    /\ opp_commands = "initial" /\ ~Parsing
    /\ opp_commands' = "steady"
    /\ poll_task' = CreateTask
    /\ NoDispatch
    /\ UNCHANGED <<ports, commVars, wireVars>>

\* initialize(), after _connect_to_hardware: the steady-state handlers
Initialize ==
    /\ opp_commands = "initial" /\ ~Parsing
    /\ \A i \in 1..Len(ports) : pc[ports[i]] \in {"ready", "crashed"}
    /\ opp_commands' = "steady"
    /\ poll_task' = CreateTask
    /\ NoDispatch
    /\ UNCHANGED <<ports, commVars, wireVars>>

\* the read task of a registered chain: n bytes arrive and go to _parse_msg
ReaderRead(c, n) ==
    /\ pc[c] = "ready" /\ ~Parsing /\ ~Failed
    /\ n \in 1..Len(wire[c])
    /\ ParseBegin(c, SubSeq(wire[c], 1, n))
    /\ wire' = [wire EXCEPT ![c] = Slice(@, n, Len(@))]
    /\ NoDispatch
    /\ UNCHANGED <<ports, opp_commands, lost_synch, pc, count, cards, written,
                   pending>>

\* the boards of chain c send bytes
BoardsSend(c, item) ==
    /\ pc[c] \in {"snapshot", "ready"} /\ ~Parsing /\ ~Failed
    /\ Len(wire[c]) <= MaxBacklog
    /\ wire' = [wire EXCEPT ![c] = @ \o item]
    /\ pending' = [pending EXCEPT ![c] = IF @ = Diverged THEN @ ELSE Append(@, item)]
    /\ NoDispatch
    /\ UNCHANGED <<ports, opp_commands, commVars, written>>

\* the boards send, and stop once the host counted MaxBadCRC bad checksums
DeviceSend(c, item) == badCRC < MaxBadCRC /\ BoardsSend(c, item)

(***************************************************************************)
(* What the boards send.                                                   *)
(***************************************************************************)
\* a checksummed record
Rec(addr, cmd, payload) ==
    LET body == <<addr, cmd>> \o payload
    IN Append(body, calc_crc8_whole_msg(body))

\* the same record with a wrong checksum byte
BadRec(addr, cmd, payload) ==
    LET body == <<addr, cmd>> \o payload
    IN Append(body, BitXor(calc_crc8_whole_msg(body), 1))

Board0 == 32
Board1 == 33

DigWords == {<<255, 255, 255, 255>>, <<255, 255, 255, 254>>, <<127, 255, 255, 254>>}
MatWords == {<<0, 0, 0, 0, 0, 0, 0, 0>>, <<0, 0, 0, 8, 0, 0, 0, 0>>,
             <<0, 0, 0, 0, 0, 0, 0, 8>>}

InputItems ==
    {Rec(Board0, READ_GEN2_INP_CMD, w) : w \in DigWords}
    \cup {BadRec(Board0, READ_GEN2_INP_CMD, <<255, 255, 255, 254>>)}
    \cup {Rec(Board0, READ_MATRIX_INP, w) : w \in MatWords}
    \cup {BadRec(Board0, READ_MATRIX_INP, <<0, 0, 0, 8, 0, 0, 0, 0>>)}
    \cup {<<EOM_CMD>>}

GoodProbe == {<<EOM_CMD>>}
GoodInv == {<<INV_CMD, Board0, EOM_CMD>>}
GoodCfg == {Append(Rec(Board0, GET_GEN2_CFG, <<WING_INP, WING_SW_MATRIX_OUT, 0, 0>>),
                   EOM_CMD)}
GoodVers == {Append(Rec(Board0, GET_VERS_CMD, <<0, 2, 0, 0>>), EOM_CMD)}

(***************************************************************************)
(* Specification of the engine on one chain whose boards answer the        *)
(* handshake correctly: snapshot, then steady-state reads.                 *)
(***************************************************************************)
InitFor(p) ==
    /\ ports = p
    /\ opp_commands = "initial"
    /\ opp_connection = {}
    /\ opp_inputs = <<>>
    /\ opp_incands = <<>>
    /\ opp_solenoid = <<>>
    /\ read_input_msg = <<>>
    /\ gen2AddrArr = <<>>
    /\ badCRC = 0
    /\ minVersion = InitMinVersion
    /\ emitted = <<>>
    /\ lastMsg = NoMsg
    /\ seeded = {}
    /\ versions = [i \in {p[j] : j \in 1..Len(p)} |-> <<>>]
    /\ partMsg = [i \in {p[j] : j \in 1..Len(p)} |-> <<>>]
    /\ lost_synch = [i \in {p[j] : j \in 1..Len(p)} |-> FALSE]
    /\ pc = [i \in {p[j] : j \in 1..Len(p)} |-> "idle"]
    /\ inParse = [i \in {p[j] : j \in 1..Len(p)} |-> FALSE]
    /\ strlen = [i \in {p[j] : j \in 1..Len(p)} |-> 0]
    /\ message_found = [i \in {p[j] : j \in 1..Len(p)} |-> 0]
    /\ count = [i \in {p[j] : j \in 1..Len(p)} |-> 0]
    /\ cards = [i \in {p[j] : j \in 1..Len(p)} |-> 0]
    /\ wire = [i \in {p[j] : j \in 1..Len(p)} |-> <<>>]
    /\ written = [i \in {p[j] : j \in 1..Len(p)} |-> <<>>]
    /\ pending = [i \in {p[j] : j \in 1..Len(p)} |-> <<>>]
    /\ poll_task = NoTask
    /\ light_update_task = NoTask
    /\ done = [poll |-> "none", light |-> "none"]
    /\ stopped = FALSE
    /\ undrained = [i \in {p[j] : j \in 1..Len(p)} |-> 0]
    /\ link = [i \in {p[j] : j \in 1..Len(p)} |-> "up"]
    /\ incandSent = <<>>
    /\ drivers = <<>>
    /\ lastCall = NoCall

Chains == DOMAIN pc

\* no frame stream
NoStream == [frame |-> <<>>, corrupt |-> 0, lead |-> 0]

Init == InitFor(<<"A">>) /\ stream = NoStream

Next ==
    \/ \E c \in Chains : HsFlush(c) /\ UNCHANGED <<stream, engineVars>>
    \/ \E c \in Chains : \E resp \in GoodProbe : HsProbe(c, resp)
          /\ UNCHANGED <<stream, engineVars>>
    \/ \E c \in Chains : \E resp \in GoodInv : HsInventory(c, resp)
          /\ UNCHANGED <<stream, engineVars>>
    \/ \E c \in Chains : \E resp \in GoodCfg : HsCfg(c, resp)
          /\ UNCHANGED <<stream, engineVars>>
    \/ \E c \in Chains : \E resp \in GoodVers : HsVers(c, resp)
          /\ UNCHANGED <<stream, engineVars>>
    \/ \E c \in Chains : HsSnapshotRead(c) /\ UNCHANGED <<stream, engineVars>>
    \/ Initialize /\ UNCHANGED <<stream, taskVars, ruleVars>>
    \/ \E c \in Chains : \E n \in 1..Len(wire[c]) : ReaderRead(c, n)
          /\ UNCHANGED <<stream, engineVars>>
    \/ \E c \in Chains : \E item \in InputItems : DeviceSend(c, item)
          /\ UNCHANGED <<stream, engineVars>>
    \/ \E c \in Chains : ParseIter(c) /\ UNCHANGED <<stream, engineVars>>
    \/ \E c \in Chains : ParseReturn(c) /\ UNCHANGED <<stream, engineVars>>

Spec == Init /\ [][Next]_vars

\* the same engine when the boards send only checksum-valid input records
\* and end-markers
ValidItems ==
    {Rec(Board0, READ_GEN2_INP_CMD, w) : w \in DigWords}
    \cup {Rec(Board0, READ_MATRIX_INP, w) : w \in MatWords}
    \cup {<<EOM_CMD>>}

NextStream ==
    \/ \E c \in Chains : HsFlush(c) /\ UNCHANGED <<stream, engineVars>>
    \/ \E c \in Chains : \E resp \in GoodProbe : HsProbe(c, resp)
          /\ UNCHANGED <<stream, engineVars>>
    \/ \E c \in Chains : \E resp \in GoodInv : HsInventory(c, resp)
          /\ UNCHANGED <<stream, engineVars>>
    \/ \E c \in Chains : \E resp \in GoodCfg : HsCfg(c, resp)
          /\ UNCHANGED <<stream, engineVars>>
    \/ \E c \in Chains : \E resp \in GoodVers : HsVers(c, resp)
          /\ UNCHANGED <<stream, engineVars>>
    \/ \E c \in Chains : HsSnapshotRead(c) /\ UNCHANGED <<stream, engineVars>>
    \/ Initialize /\ UNCHANGED <<stream, taskVars, ruleVars>>
    \/ \E c \in Chains : \E n \in 1..Len(wire[c]) : ReaderRead(c, n)
          /\ UNCHANGED <<stream, engineVars>>
    \/ \E c \in Chains : \E item \in ValidItems : DeviceSend(c, item)
          /\ UNCHANGED <<stream, engineVars>>
    \/ \E c \in Chains : ParseIter(c) /\ UNCHANGED <<stream, engineVars>>
    \/ \E c \in Chains : ParseReturn(c) /\ UNCHANGED <<stream, engineVars>>

SpecStream == Init /\ [][NextStream]_vars

(***************************************************************************)
(* Specification of the handshake of one chain, up to its registration,    *)
(* whose boards may answer every step wrongly.                             *)
(***************************************************************************)
VersOk == <<0, 2, 0, 0>>
VersOld == <<0, 1, 0, 0>>
VersTooOld == <<0, 0, 0, 255>>

HsProbeResps == {<<EOM_CMD>>, <<0>>}

HsInvResps ==
    {<<INV_CMD, Board0, EOM_CMD>>, <<INV_CMD, Board0, Board1, EOM_CMD>>,
     <<INV_CMD, EOM_CMD>>, <<EOM_CMD>>}

HsWings == {<<WING_INP, 0, 0, 0>>, <<WING_SOL, WING_INCAND, 0, 0>>}

HsCfgResps ==
    {Append(Rec(Board0, GET_GEN2_CFG, w), EOM_CMD) : w \in HsWings}
    \cup {Rec(Board0, GET_GEN2_CFG, <<WING_INP, 0, 0, 0>>)
           \o Rec(Board1, GET_GEN2_CFG, <<WING_SW_MATRIX_OUT, WING_NEO, 0, 0>>)
           \o <<EOM_CMD>>}
    \* bad checksum, trailing byte, second record cut short, only end-markers
    \cup {Append(BadRec(Board0, GET_GEN2_CFG, <<WING_INP, 0, 0, 0>>), EOM_CMD)}
    \cup {Rec(Board0, GET_GEN2_CFG, <<WING_INP, 0, 0, 0>>) \o <<0, EOM_CMD>>}
    \cup {Rec(Board0, GET_GEN2_CFG, <<WING_INP, 0, 0, 0>>)
           \o <<Board1, GET_GEN2_CFG, EOM_CMD>>}
    \cup {<<EOM_CMD, EOM_CMD, EOM_CMD, EOM_CMD, EOM_CMD, EOM_CMD, EOM_CMD>>}

HsVersResps ==
    {Append(Rec(Board0, GET_VERS_CMD, v), EOM_CMD) :
        v \in {VersOk, VersTooOld, BAD_FW_VERSION}}
    \cup {Rec(Board0, GET_VERS_CMD, VersOk) \o Rec(Board1, GET_VERS_CMD, v)
           \o <<EOM_CMD>> : v \in {VersOld, BAD_FW_VERSION}}
    \* bad checksum in the first record, trailing byte, second record cut short
    \cup {BadRec(Board0, GET_VERS_CMD, VersOk) \o Rec(Board1, GET_VERS_CMD, v)
           \o <<EOM_CMD>> : v \in {VersOk, BAD_FW_VERSION}}
    \cup {Rec(Board0, GET_VERS_CMD, VersOk) \o <<0, EOM_CMD>>}
    \cup {Rec(Board0, GET_VERS_CMD, VersOk) \o <<Board1, GET_VERS_CMD, EOM_CMD>>}

\* what the boards answer to the composite read message: records, each closed
\* by an end-marker, and lone end-markers
HsItems ==
    {Append(Rec(Board0, READ_GEN2_INP_CMD, w), EOM_CMD) :
        w \in {<<255, 255, 255, 255>>, <<255, 255, 255, 254>>}}
    \cup {Append(BadRec(Board0, READ_GEN2_INP_CMD, <<255, 255, 255, 254>>), EOM_CMD)}
    \cup {Append(Rec(Board1, READ_MATRIX_INP, <<0, 0, 0, 8, 0, 0, 0, 0>>), EOM_CMD)}
    \cup {<<EOM_CMD>>}

NextHandshake ==
    \/ \E c \in Chains : HsFlush(c) /\ UNCHANGED <<stream, engineVars>>
    \/ \E c \in Chains : \E resp \in HsProbeResps :
          (resp = <<EOM_CMD>> \/ count[c] < MaxBadProbes) /\ HsProbe(c, resp)
          /\ UNCHANGED <<stream, engineVars>>
    \/ \E c \in Chains : \E resp \in HsInvResps : HsInventory(c, resp)
          /\ UNCHANGED <<stream, engineVars>>
    \/ \E c \in Chains : \E resp \in HsCfgResps : HsCfg(c, resp)
          /\ UNCHANGED <<stream, engineVars>>
    \/ \E c \in Chains : \E resp \in HsVersResps : HsVers(c, resp)
          /\ UNCHANGED <<stream, engineVars>>
    \/ \E c \in Chains : HsSnapshotRead(c) /\ UNCHANGED <<stream, engineVars>>
    \/ \E c \in Chains : \E item \in HsItems :
          pc[c] = "snapshot" /\ DeviceSend(c, item) /\ UNCHANGED <<stream, engineVars>>
    \/ \E c \in Chains : ParseIter(c) /\ UNCHANGED <<stream, engineVars>>
    \/ \E c \in Chains : ParseReturn(c) /\ UNCHANGED <<stream, engineVars>>

SpecHandshake == Init /\ [][NextHandshake]_vars

(***************************************************************************)
(* Specification of the version step: one chain of one or two boards whose *)
(* version response is valid, too old, or rejected; the boards answer the  *)
(* snapshot with valid records.                                            *)
(***************************************************************************)
VersionInv == {<<INV_CMD, Board0, EOM_CMD>>, <<INV_CMD, Board0, Board1, EOM_CMD>>}

VersionCfg ==
    {Append(Rec(Board0, GET_GEN2_CFG, <<WING_INP, 0, 0, 0>>), EOM_CMD),
     Rec(Board0, GET_GEN2_CFG, <<WING_INP, 0, 0, 0>>)
       \o Rec(Board1, GET_GEN2_CFG, <<WING_INP, 0, 0, 0>>) \o <<EOM_CMD>>}

VersionItems ==
    {Append(Rec(b, READ_GEN2_INP_CMD, <<255, 255, 255, 255>>), EOM_CMD) :
        b \in {Board0, Board1}}

NextVersions ==
    \/ \E c \in Chains : HsFlush(c) /\ UNCHANGED <<stream, engineVars>>
    \/ \E c \in Chains : \E resp \in GoodProbe : HsProbe(c, resp)
          /\ UNCHANGED <<stream, engineVars>>
    \/ \E c \in Chains : \E resp \in VersionInv : HsInventory(c, resp)
          /\ UNCHANGED <<stream, engineVars>>
    \/ \E c \in Chains : \E resp \in VersionCfg : HsCfg(c, resp)
          /\ UNCHANGED <<stream, engineVars>>
    \/ \E c \in Chains : \E resp \in HsVersResps : HsVers(c, resp)
          /\ UNCHANGED <<stream, engineVars>>
    \/ \E c \in Chains : HsSnapshotRead(c) /\ UNCHANGED <<stream, engineVars>>
    \/ \E c \in Chains : \E item \in VersionItems :
          pc[c] = "snapshot" /\ BoardsSend(c, item)
          /\ UNCHANGED <<stream, engineVars>>
    \/ \E c \in Chains : ParseIter(c) /\ UNCHANGED <<stream, engineVars>>
    \/ \E c \in Chains : ParseReturn(c) /\ UNCHANGED <<stream, engineVars>>

SpecVersions == Init /\ [][NextVersions]_vars

(***************************************************************************)
(* Specification of the parser on arbitrary bytes: after a correct         *)
(* handshake the boards send records, cut records, addresses with a        *)
(* command that is no read, end-markers and stray bytes, which the reader  *)
(* hands to _parse_msg in chunks of any length.                            *)
(***************************************************************************)
ParseItems ==
    {Rec(Board0, READ_GEN2_INP_CMD, <<255, 255, 255, 255>>),
     Rec(Board0, READ_MATRIX_INP, <<0, 0, 0, 0, 0, 0, 0, 0>>),
     <<Board0, READ_MATRIX_INP, 0, 0, 0, 0, 0>>,
     <<Board0, GET_VERS_CMD>>,
     <<EOM_CMD>>,
     <<0>>}

\* what the boards send while the host reads the snapshot
ParseSnapshotItems ==
    {Append(Rec(Board0, READ_GEN2_INP_CMD, <<255, 255, 255, 255>>), EOM_CMD),
     Append(Rec(Board0, READ_MATRIX_INP, <<0, 0, 0, 0, 0, 0, 0, 0>>), EOM_CMD)}

NextParse ==
    \/ \E c \in Chains : HsFlush(c) /\ UNCHANGED <<stream, engineVars>>
    \/ \E c \in Chains : \E resp \in GoodProbe : HsProbe(c, resp)
          /\ UNCHANGED <<stream, engineVars>>
    \/ \E c \in Chains : \E resp \in GoodInv : HsInventory(c, resp)
          /\ UNCHANGED <<stream, engineVars>>
    \/ \E c \in Chains : \E resp \in GoodCfg : HsCfg(c, resp)
          /\ UNCHANGED <<stream, engineVars>>
    \/ \E c \in Chains : \E resp \in GoodVers : HsVers(c, resp)
          /\ UNCHANGED <<stream, engineVars>>
    \/ \E c \in Chains : HsSnapshotRead(c) /\ UNCHANGED <<stream, engineVars>>
    \/ Initialize /\ UNCHANGED <<stream, taskVars, ruleVars>>
    \/ \E c \in Chains : \E n \in 1..Len(wire[c]) : ReaderRead(c, n)
          /\ UNCHANGED <<stream, engineVars>>
    \/ \E c \in Chains : \E item \in ParseSnapshotItems :
          pc[c] = "snapshot" /\ wire[c] = <<>> /\ DeviceSend(c, item)
          /\ UNCHANGED <<stream, engineVars>>
    \/ \E c \in Chains : \E item \in ParseItems :
          pc[c] = "ready" /\ wire[c] = <<>> /\ DeviceSend(c, item)
          /\ UNCHANGED <<stream, engineVars>>
    \/ \E c \in Chains : ParseIter(c) /\ UNCHANGED <<stream, engineVars>>
    \/ \E c \in Chains : ParseReturn(c) /\ UNCHANGED <<stream, engineVars>>

SpecParse == Init /\ [][NextParse]_vars

(***************************************************************************)
(* Specification of the probe phase: the boards of one chain answer a      *)
(* probe with an end-marker, with another byte or not at all, any number   *)
(* of times; once the probe is answered the handshake goes on to the       *)
(* registration.                                                           *)
(***************************************************************************)
ProbeResps == HsProbeResps \cup {<<>>, <<0, EOM_CMD>>}

ProbeItems ==
    {Append(Rec(Board0, READ_GEN2_INP_CMD, <<255, 255, 255, 255>>), EOM_CMD),
     Append(Rec(Board0, READ_MATRIX_INP, <<0, 0, 0, 0, 0, 0, 0, 0>>), EOM_CMD)}

NextProbe ==
    \/ \E c \in Chains : HsFlush(c) /\ UNCHANGED <<stream, engineVars>>
    \/ \E c \in Chains : \E resp \in ProbeResps : HsProbe(c, resp)
          /\ UNCHANGED <<stream, engineVars>>
    \/ \E c \in Chains : \E resp \in GoodInv : HsInventory(c, resp)
          /\ UNCHANGED <<stream, engineVars>>
    \/ \E c \in Chains : \E resp \in GoodCfg : HsCfg(c, resp)
          /\ UNCHANGED <<stream, engineVars>>
    \/ \E c \in Chains : \E resp \in GoodVers : HsVers(c, resp)
          /\ UNCHANGED <<stream, engineVars>>
    \/ \E c \in Chains : HsSnapshotRead(c) /\ UNCHANGED <<stream, engineVars>>
    \/ \E c \in Chains : \E item \in ProbeItems :
          pc[c] = "snapshot" /\ wire[c] = <<>> /\ DeviceSend(c, item)
          /\ UNCHANGED <<stream, engineVars>>
    \/ \E c \in Chains : ParseIter(c) /\ UNCHANGED <<stream, engineVars>>
    \/ \E c \in Chains : ParseReturn(c) /\ UNCHANGED <<stream, engineVars>>

SpecProbe == Init /\ [][NextProbe]_vars

(***************************************************************************)
(* Specification of two chains brought up one after the other by           *)
(* _connect_to_hardware: the read task of the first runs while the second  *)
(* is in its handshake.  The boards answer correctly.                      *)
(***************************************************************************)
ChainItems ==
    {Append(Rec(Board0, READ_GEN2_INP_CMD, w), EOM_CMD) :
        w \in {<<255, 255, 255, 255>>, <<255, 255, 255, 254>>}}
    \cup {Append(Rec(Board0, READ_MATRIX_INP, w), EOM_CMD) :
        w \in {<<0, 0, 0, 0, 0, 0, 0, 0>>, <<0, 0, 0, 8, 0, 0, 0, 0>>}}

InitChains == InitFor(<<"A", "B">>) /\ stream = NoStream

NextChains ==
    \/ \E c \in Chains : HsFlush(c) /\ UNCHANGED <<stream, engineVars>>
    \/ \E c \in Chains : \E resp \in GoodProbe : HsProbe(c, resp)
          /\ UNCHANGED <<stream, engineVars>>
    \/ \E c \in Chains : \E resp \in GoodInv : HsInventory(c, resp)
          /\ UNCHANGED <<stream, engineVars>>
    \/ \E c \in Chains : \E resp \in GoodCfg : HsCfg(c, resp)
          /\ UNCHANGED <<stream, engineVars>>
    \/ \E c \in Chains : \E resp \in GoodVers : HsVers(c, resp)
          /\ UNCHANGED <<stream, engineVars>>
    \/ \E c \in Chains : HsSnapshotRead(c) /\ UNCHANGED <<stream, engineVars>>
    \/ Initialize /\ UNCHANGED <<stream, taskVars, ruleVars>>
    \/ \E c \in Chains : wire[c] # <<>> /\ ReaderRead(c, Len(wire[c]))
          /\ UNCHANGED <<stream, engineVars>>
    \/ \E c \in Chains : \E item \in ChainItems :
          wire[c] = <<>> /\ DeviceSend(c, item) /\ UNCHANGED <<stream, engineVars>>
    \/ \E c \in Chains : ParseIter(c) /\ UNCHANGED <<stream, engineVars>>
    \/ \E c \in Chains : ParseReturn(c) /\ UNCHANGED <<stream, engineVars>>

SpecChains == InitChains /\ [][NextChains]_vars

(***************************************************************************)
(* Specification of the resynchronizer on a corrupted stream: after the    *)
(* handshake the boards of one chain send the same checksum-valid 7-byte   *)
(* digital-read frame again and again; up to MaxCorrupt times a byte is    *)
(* deleted from a frame or inserted into it on the way.  The read task     *)
(* and _parse_msg run whenever they can.                                   *)
(***************************************************************************)
\* 20 08 ff ff ff fe 54: no byte after the address carries the marker bits
FramePlain == Rec(Board0, READ_GEN2_INP_CMD, <<255, 255, 255, 254>>)
\* 20 08 ff ff ff 58 2f: the checksum byte carries the address-marker bits
FrameMarked == Rec(Board0, READ_GEN2_INP_CMD, <<255, 255, 255, 88>>)

StreamFrames == {FramePlain, FrameMarked}

InsertedBytes == {0, Board0}

Deletions(f) == {SubSeq(f, 1, i - 1) \o SubSeq(f, i + 1, Len(f)) : i \in 1..Len(f)}

Insertions(f) ==
    {SubSeq(f, 1, i) \o <<b>> \o SubSeq(f, i + 1, Len(f)) :
        i \in 0..Len(f), b \in InsertedBytes}

\* what the boards answer to the composite read message in the snapshot
SnapshotItems ==
    {Append(Rec(Board0, READ_GEN2_INP_CMD, <<255, 255, 255, 255>>), EOM_CMD),
     Append(Rec(Board0, READ_MATRIX_INP, <<0, 0, 0, 0, 0, 0, 0, 0>>), EOM_CMD)}

\* the next frame of the stream arrives, whole or with one byte deleted or
\* inserted
StreamSend(c, item) ==
    /\ pc[c] = "ready" /\ opp_commands = "steady" /\ ~Parsing
    /\ wire[c] = <<>>
    /\ item = stream.frame \/ stream.corrupt < MaxCorrupt
    /\ wire' = [wire EXCEPT ![c] = item]
    /\ pending' = [pending EXCEPT ![c] = Diverged]
    /\ stream' = [stream EXCEPT
                    !.corrupt = IF item = stream.frame THEN @ ELSE @ + 1,
                    !.lead = IF @ < MaxLead THEN @ + 1 ELSE @]
    /\ NoDispatch
    /\ UNCHANGED <<ports, opp_commands, commVars, written, engineVars>>

\* a checksum-valid input record reaches the diff engine in this step
ValidDelivered ==
    /\ lastMsg'.via = "parse_msg"
    /\ IsInputRecord(lastMsg'.msg) /\ ChecksumMatches(lastMsg'.msg)

\* one iteration of _parse_msg on the stream
StreamParse(c) ==
    /\ ParseIter(c)
    /\ stream' = [stream EXCEPT
                    !.lead = IF ValidDelivered /\ opp_commands = "steady" /\ @ >= 0
                             THEN @ - 1 ELSE @]
    /\ UNCHANGED engineVars

InitResync ==
    /\ InitFor(<<"A">>)
    /\ \E f \in StreamFrames : stream = [frame |-> f, corrupt |-> 0, lead |-> 0]

NextResync ==
    \/ \E c \in Chains : HsFlush(c) /\ UNCHANGED <<stream, engineVars>>
    \/ \E c \in Chains : \E resp \in GoodProbe : HsProbe(c, resp)
          /\ UNCHANGED <<stream, engineVars>>
    \/ \E c \in Chains : \E resp \in GoodInv : HsInventory(c, resp)
          /\ UNCHANGED <<stream, engineVars>>
    \/ \E c \in Chains : \E resp \in GoodCfg : HsCfg(c, resp)
          /\ UNCHANGED <<stream, engineVars>>
    \/ \E c \in Chains : \E resp \in GoodVers : HsVers(c, resp)
          /\ UNCHANGED <<stream, engineVars>>
    \/ \E c \in Chains : HsSnapshotRead(c) /\ UNCHANGED <<stream, engineVars>>
    \/ \E c \in Chains : \E item \in SnapshotItems :
          pc[c] = "snapshot" /\ wire[c] = <<>> /\ DeviceSend(c, item)
          /\ UNCHANGED <<stream, engineVars>>
    \/ Initialize /\ UNCHANGED <<stream, taskVars, ruleVars>>
    \/ \E c \in Chains : StreamSend(c, stream.frame)
    \/ \E c \in Chains :
          \E item \in Deletions(stream.frame) \cup Insertions(stream.frame) :
              StreamSend(c, item)
    \/ \E c \in Chains : wire[c] # <<>> /\ ReaderRead(c, Len(wire[c]))
          /\ UNCHANGED <<stream, engineVars>>
    \/ \E c \in Chains : StreamParse(c)
    \/ \E c \in Chains : ParseReturn(c) /\ UNCHANGED <<stream, engineVars>>

\* once the stream flows the boards keep sending and the event loop keeps
\* running the read task; nothing obliges the line to corrupt a frame
ResyncProgress ==
    \/ \E c \in Chains : StreamSend(c, stream.frame)
    \/ \E c \in Chains : wire[c] # <<>> /\ ReaderRead(c, Len(wire[c]))
          /\ UNCHANGED <<stream, engineVars>>
    \/ \E c \in Chains : ParseReturn(c) /\ UNCHANGED <<stream, engineVars>>

\* _parse_msg runs without suspension: while an iteration of its loop is due,
\* the iteration happens; every iteration changes strlen or _lost_synch
ParseLoopRuns(c) ==
    /\ inParse[c] /\ strlen[c] >= 7
    /\ \E n \in 0..11 : \E lost \in BOOLEAN :
          /\ strlen' = [strlen EXCEPT ![c] = @ - n]
          /\ lost_synch' = [lost_synch EXCEPT ![c] = lost]

SpecResync ==
    /\ InitResync /\ [][NextResync]_vars
    /\ WF_vars(ResyncProgress)
    /\ WF_<<strlen, lost_synch>>(ParseLoopRuns("A"))

(***************************************************************************)
(* Drivers and hardware rules (HardwarePlatform, the rule engine).         *)
(*                                                                         *)
(* A number "chain-card-channel" is the tuple <<chain, card, channel>>.    *)
(* A configuration value that may be None is the empty set or the set of   *)
(* its value.  The entries of OPPSolenoid.switches are Python strings and  *)
(* matching_sw is a Python int: values carry their type so that "in"       *)
(* compares as Python does.                                                *)
(***************************************************************************)
\* flag bytes and commands (OppRs232Intf)
CFG_SOL_USE_SWITCH == 1
CFG_SOL_AUTO_CLR == 2
CFG_SOL_ON_OFF == 4
CFG_SOL_INP_REMOVE == 128
INCAND_CMD == 19
INCAND_SET_ON_OFF == 7
CFG_IND_SOL_CMD == 20
SET_SOL_INP_CMD == 23

\* 0x00020000: the firmware that has the set-solenoid-input command
FW_SOL_INP == <<0, 2, 0, 0>>
\* self.minVersion >= 0x00020000
HasSolInp == ~VersLess(minVersion, FW_SOL_INP)

\* machine.config['mpf']['default_pulse_ms']
default_pulse_ms == 10

\* bool(x) of a value that is None or an int
Truthy(opt) == opt # {} /\ opt # {0}
Val(opt) == CHOOSE v \in opt : TRUE

PyStr(x) == [type |-> "str", v |-> x]
PyInt(n) == [type |-> "int", v |-> n]
\* a == b
PyEq(a, b) == a.type = b.type /\ a.v = b.v
\* x in list
PyIn(x, list) == \E i \in 1..Len(list) : PyEq(x, list[i])
\* list.remove(x): the first occurrence goes
PyRemove(list, x) ==
    LET k == CHOOSE i \in 1..Len(list) :
                 PyEq(x, list[i]) /\ \A j \in 1..(i - 1) : ~PyEq(x, list[j])
    IN SubSeq(list, 1, k - 1) \o SubSeq(list, k + 1, Len(list))

\* get_hold_value(coil)
get_hold_value(config) ==
    IF Truthy(config.hold_power16) THEN Val(config.hold_power16)
    ELSE IF Truthy(config.hold_power)
    THEN IF Val(config.hold_power) >= 8 THEN 16 ELSE Val(config.hold_power) * 2
    ELSE IF config.allow_enable THEN 16
    ELSE 0

\* get_minimum_off_time(coil): the factor, or the AssertionError
get_minimum_off_time(config) ==
    IF ~config.recycle THEN [raised |-> FALSE, value |-> 0]
    ELSE IF Truthy(config.recycle_factor)
    THEN IF Val(config.recycle_factor) > 7
         THEN [raised |-> TRUE, value |-> 0]
         ELSE [raised |-> FALSE, value |-> Val(config.recycle_factor)]
    ELSE [raised |-> FALSE, value |-> 2]

\* _get_pulse_ms_value(coil)
get_pulse_ms_value(config) ==
    IF Truthy(config.pulse_ms) THEN Val(config.pulse_ms) ELSE default_pulse_ms

\* ((int(solenoid) & 0x0c) << 1) | (int(solenoid) & 0x03)
matching_sw(solenoid) == BitAnd(solenoid, 12) * 2 + BitAnd(solenoid, 3)

\* OPPSolenoid(sol_card, number): the object solDict holds for a channel
OPPSolenoid(number) ==
    [number |-> number, addr |-> number[2] + CARD_ID_GEN2_CARD,
     config |-> <<>>, use_switch |-> FALSE, switches |-> <<>>,
     can_be_pulsed |-> FALSE, returned |-> FALSE]

\* the keys of solDict, inpDict and incandDict
SolNumbers ==
    UNION {{<<opp_solenoid[i].chain_serial, opp_solenoid[i].cardNum, n>> :
               n \in opp_solenoid[i].mask} : i \in 1..Len(opp_solenoid)}
InpNumbers ==
    UNION {{<<opp_inputs[i].chain_serial, opp_inputs[i].cardNum, n>> :
               n \in opp_inputs[i].mask} : i \in 1..Len(opp_inputs)}
IncandNumbers ==
    UNION {{<<opp_incands[i].chain_serial, opp_incands[i].cardNum, n>> :
               n \in opp_incands[i].mask} : i \in 1..Len(opp_incands)}

\* ConfiguredHwDriver(hw_driver, config_overwrite): the driver a rule is given;
\* its config is the driver's with the settings of the rule laid over it
ConfiguredHwDriver(d, config_overwrite) ==
    [d EXCEPT !.config =
        [k \in DOMAIN d.config |->
            IF k \in DOMAIN config_overwrite /\ config_overwrite[k] # {}
            THEN (IF k = "recycle" THEN Val(config_overwrite[k])
                  ELSE config_overwrite[k])
            ELSE d.config[k]]]

\* a call in progress: the driver, the frames it has sent, the exception that
\* left it, and the use_hold it gave reconfigure_driver
Call(d) == [d |-> d, frames |-> <<>>, raised |-> "none", use_hold |-> {}]

\* send_to_processor(chain_serial, msg) as a step of the call S
send_to_processor(S, chain_serial, msg) ==
    IF S.raised # "none" THEN S
    ELSE IF chain_serial \notin opp_connection
    THEN [S EXCEPT !.raised = "KeyError"]
    ELSE IF link[chain_serial] # "up" THEN [S EXCEPT !.raised = "SendError"]
    ELSE [S EXCEPT !.frames = Append(@, [chain_serial |-> chain_serial,
                                         msg |-> msg])]

\* the frame of reconfigure_driver
SolCfgFrame(addr, solenoid, cmd, pulse_len, hold, minimum_off) ==
    LET msg == <<addr, CFG_IND_SOL_CMD, solenoid, cmd, pulse_len,
                 hold + minimum_off * 16>>
    IN msg \o <<calc_crc8_whole_msg(msg), EOM_CMD>>

\* reconfigure_driver that sends a hold of 16 or more as it is, with no flag
\* and no clamp; the properties of reconfigure_driver must tell it from
\* reconfigure_driver
reconfigure_driver_unclamped(S, use_hold) ==
    IF S.raised # "none" THEN S
    ELSE
    LET d == [S.d EXCEPT !.can_be_pulsed = ~use_hold]
        S1 == [S EXCEPT !.d = d, !.use_hold = {use_hold}]
        hold0 == IF use_hold THEN get_hold_value(d.config) ELSE 0
        full == use_hold /\ hold0 >= 16
        cmd0 == IF ~use_hold THEN CFG_SOL_AUTO_CLR ELSE 0
        hold == hold0
        minimum_off == get_minimum_off_time(d.config)
        solenoid == d.number[3]
        use_sw == IF ~HasSolInp /\ d.use_switch THEN TRUE
                  ELSE IF HasSolInp
                  THEN PyIn(PyInt(matching_sw(solenoid)), d.switches)
                  ELSE FALSE
        cmd == cmd0 + (IF use_sw THEN CFG_SOL_USE_SWITCH ELSE 0)
    IN IF use_hold /\ hold0 = 0 THEN [S1 EXCEPT !.raised = "AssertionError"]
       ELSE IF minimum_off.raised THEN [S1 EXCEPT !.raised = "AssertionError"]
       ELSE send_to_processor(S1, d.number[1],
               SolCfgFrame(d.addr, solenoid, cmd, get_pulse_ms_value(d.config),
                           hold, minimum_off.value))

\* reconfigure_driver(driver, use_hold) as a step of the call S
reconfigure_driver(S, use_hold) ==
    IF S.raised # "none" THEN S
    ELSE
    LET d == [S.d EXCEPT !.can_be_pulsed = ~use_hold]
        S1 == [S EXCEPT !.d = d, !.use_hold = {use_hold}]
        hold0 == IF use_hold THEN get_hold_value(d.config) ELSE 0
        full == use_hold /\ hold0 >= 16
        cmd0 == IF ~use_hold THEN CFG_SOL_AUTO_CLR
                ELSE IF full /\ HasSolInp THEN CFG_SOL_ON_OFF
                ELSE 0
        hold == IF full THEN (IF HasSolInp THEN 0 ELSE 15) ELSE hold0
        minimum_off == get_minimum_off_time(d.config)
        solenoid == d.number[3]
        use_sw == IF ~HasSolInp /\ d.use_switch THEN TRUE
                  ELSE IF HasSolInp
                  THEN PyIn(PyInt(matching_sw(solenoid)), d.switches)
                  ELSE FALSE
        cmd == cmd0 + (IF use_sw THEN CFG_SOL_USE_SWITCH ELSE 0)
    IN IF use_hold /\ hold0 = 0 THEN [S1 EXCEPT !.raised = "AssertionError"]
       ELSE IF minimum_off.raised THEN [S1 EXCEPT !.raised = "AssertionError"]
       ELSE send_to_processor(S1, d.number[1],
               SolCfgFrame(d.addr, solenoid, cmd, get_pulse_ms_value(d.config),
                           hold, minimum_off.value))

\* _verify_coil_and_switch_fit that asks for the same chain and board only,
\* whatever the firmware; the properties of the fit check must tell it from
\* verify_coil_and_switch_fit
verify_same_board(sw_number, number) ==
    number[1] = sw_number[1] /\ number[2] = sw_number[2]

\* _verify_coil_and_switch_fit(switch, coil): TRUE when nothing is raised
verify_coil_and_switch_fit(sw_number, number) ==
    IF HasSolInp
    THEN ~(number[1] # sw_number[1] \/ number[2] # sw_number[2])
    ELSE ~(\/ number[1] # sw_number[1]
           \/ number[2] # sw_number[2]
           \/ matching_sw(number[3]) # sw_number[3])

\* the frame of _add_switch_coil_mapping / _remove_switch_coil_mapping
SolInpFrame(addr, switch_num, coil_byte) ==
    LET msg == <<addr, SET_SOL_INP_CMD, switch_num, coil_byte>>
    IN msg \o <<calc_crc8_whole_msg(msg), EOM_CMD>>

add_switch_coil_mapping(S, switch_num) ==
    IF S.raised # "none" \/ ~HasSolInp THEN S
    ELSE send_to_processor(S, S.d.number[1],
             SolInpFrame(S.d.addr, switch_num, S.d.number[3]))

remove_switch_coil_mapping(S, switch_num) ==
    IF S.raised # "none" \/ ~HasSolInp THEN S
    ELSE send_to_processor(S, S.d.number[1],
             SolInpFrame(S.d.addr, switch_num,
                         S.d.number[3] + CFG_SOL_INP_REMOVE))

\* _write_hw_rule(switch_obj, driver_obj, use_hold) on the driver d
write_hw_rule(switch_obj, d, use_hold) ==
    IF switch_obj.invert THEN [Call(d) EXCEPT !.raised = "AssertionError"]
    ELSE IF ~verify_coil_and_switch_fit(switch_obj.number, d.number)
    THEN [Call(d) EXCEPT !.raised = "AssertionError"]
    ELSE LET d1 == [d EXCEPT !.use_switch = TRUE,
                             !.switches = Append(@, PyStr(switch_obj.number))]
             S1 == add_switch_coil_mapping(Call(d1), switch_obj.number[3])
         IN reconfigure_driver(S1, use_hold)

\* the rule setters
set_pulse_on_hit_rule(enable_switch, d) ==
    write_hw_rule(enable_switch, d, FALSE)

\* a release rule that keeps the coil enabled while the switch is held; the
\* properties of the release rule must tell it from
\* set_pulse_on_hit_and_release_rule
set_pulse_and_hold_until_release_rule(enable_switch, d) ==
    write_hw_rule(enable_switch, d, get_hold_value(d.config) # 0)

set_pulse_on_hit_and_release_rule(enable_switch, d) ==
    set_pulse_on_hit_rule(enable_switch, d)

\* the enable rule without its own test of the hold value; the properties of
\* the enable rule must tell it from
\* set_pulse_on_hit_and_enable_and_release_rule
set_enable_rule_unchecked(enable_switch, d) ==
    write_hw_rule(enable_switch, d, TRUE)

set_pulse_on_hit_and_enable_and_release_rule(enable_switch, d) ==
    IF get_hold_value(d.config) = 0
    THEN [Call(d) EXCEPT !.raised = "AssertionError"]
    ELSE write_hw_rule(enable_switch, d, TRUE)

set_pulse_on_hit_and_enable_and_release_and_disable_rule(enable_switch, d) ==
    [Call(d) EXCEPT !.raised = "AssertionError"]

\* clear_hw_rule that always reconfigures without hold; the properties of
\* clear_hw_rule must tell it from clear_hw_rule
clear_hw_rule_pulsed(switch, d) ==
    LET has == PyIn(PyStr(switch.number), d.switches)
        d1 == IF has
              THEN [d EXCEPT !.switches = PyRemove(@, PyStr(switch.number))]
              ELSE d
        S1 == IF has THEN remove_switch_coil_mapping(Call(d1), switch.number[3])
              ELSE Call(d1)
    IN IF d1.switches = <<>> /\ S1.raised = "none"
       THEN reconfigure_driver([S1 EXCEPT !.d.use_switch = FALSE], FALSE)
       ELSE S1

\* clear_hw_rule(switch, coil) on the driver d
clear_hw_rule(switch, d) ==
    LET has == PyIn(PyStr(switch.number), d.switches)
        d1 == IF has
              THEN [d EXCEPT !.switches = PyRemove(@, PyStr(switch.number))]
              ELSE d
        S1 == IF has THEN remove_switch_coil_mapping(Call(d1), switch.number[3])
              ELSE Call(d1)
    IN IF d1.switches = <<>> /\ S1.raised = "none"
       THEN reconfigure_driver([S1 EXCEPT !.d.use_switch = FALSE],
                               ~d1.can_be_pulsed)
       ELSE S1

(***************************************************************************)
(* The host's calls on drivers and rules.  The calls on one driver touch   *)
(* no other driver, so one configured driver is followed.                  *)
(***************************************************************************)
\* frames of the call S that went to chain c
FramesTo(S, c) ==
    Cardinality({i \in 1..Len(S.frames) : S.frames[i].chain_serial = c})

\* the call S of op has ended: its frames are in the transports' buffers
CallEnds(S, op, number, switch) ==
    /\ undrained' = [c \in DOMAIN undrained |->
                         IF undrained[c] + FramesTo(S, c) < MaxUndrained
                         THEN undrained[c] + FramesTo(S, c) ELSE MaxUndrained]
    /\ lastCall' = [op |-> op, number |-> number, switch |-> switch,
                    use_hold |-> S.use_hold, raised |-> S.raised,
                    frames |-> S.frames,
                    config |-> IF number = <<>> THEN <<>> ELSE S.d.config]

\* configure_driver(config) with config['number'] resolved to number
ConfigureDriver(number, config) ==
    /\ opp_commands = "steady" /\ ~Parsing
    /\ drivers = <<>>
    /\ LET known == opp_connection # {} /\ number \in SolNumbers
           cfg == IF Truthy(config.pulse_ms) THEN config
                  ELSE [config EXCEPT !.pulse_ms = {default_pulse_ms}]
           S == IF ~known
                THEN [Call(OPPSolenoid(number)) EXCEPT !.raised = "AssertionError"]
                ELSE reconfigure_driver(
                         Call([OPPSolenoid(number) EXCEPT !.config = cfg]),
                         get_hold_value(cfg) # 0)
       IN /\ drivers' = IF known
                        THEN number :> [S.d EXCEPT !.returned = (S.raised = "none")]
                        ELSE drivers
          /\ CallEnds(S, "configure_driver", number, <<>>)
    /\ NoDispatch
    /\ UNCHANGED <<ports, opp_commands, commVars, wireVars, stream, poll_task,
                   light_update_task, done, stopped, link, incandSent>>

\* reconfigure_driver(driver, use_hold), called by the driver object when it
\* is pulsed or enabled
ReconfigureDriver(number, use_hold) ==
    /\ opp_commands = "steady" /\ ~Parsing
    /\ number \in DOMAIN drivers /\ drivers[number].returned
    /\ LET S == reconfigure_driver(Call(drivers[number]), use_hold)
       IN /\ drivers' = [drivers EXCEPT ![number] = S.d]
          /\ CallEnds(S, "reconfigure_driver", number, <<>>)
    /\ NoDispatch
    /\ UNCHANGED <<ports, opp_commands, commVars, wireVars, stream, poll_task,
                   light_update_task, done, stopped, link, incandSent>>

RuleOps ==
    {"set_pulse_on_hit_rule", "set_pulse_on_hit_and_release_rule",
     "set_pulse_on_hit_and_enable_and_release_rule",
     "set_pulse_on_hit_and_enable_and_release_and_disable_rule"}

\* one of the rule setters, called with a configured switch and driver
SetRule(op, switch_obj, number, config_overwrite) ==
    /\ opp_commands = "steady" /\ ~Parsing
    /\ number \in DOMAIN drivers /\ drivers[number].returned
    /\ switch_obj.number \in InpNumbers
    /\ LET d == ConfiguredHwDriver(drivers[number], config_overwrite)
           S == IF op = "set_pulse_on_hit_rule"
                THEN set_pulse_on_hit_rule(switch_obj, d)
                ELSE IF op = "set_pulse_on_hit_and_release_rule"
                THEN set_pulse_on_hit_and_release_rule(switch_obj, d)
                ELSE IF op = "set_pulse_on_hit_and_enable_and_release_rule"
                THEN set_pulse_on_hit_and_enable_and_release_rule(switch_obj, d)
                ELSE set_pulse_on_hit_and_enable_and_release_and_disable_rule(
                         switch_obj, d)
       IN /\ drivers' = [drivers EXCEPT
                             ![number] = [S.d EXCEPT !.config = drivers[number].config]]
          /\ CallEnds(S, op, number, switch_obj)
    /\ NoDispatch
    /\ UNCHANGED <<ports, opp_commands, commVars, wireVars, stream, poll_task,
                   light_update_task, done, stopped, link, incandSent>>

\* clear_hw_rule(switch, coil)
ClearHwRule(switch_obj, number) ==
    /\ opp_commands = "steady" /\ ~Parsing
    /\ number \in DOMAIN drivers /\ drivers[number].returned
    /\ switch_obj.number \in InpNumbers
    /\ LET S == clear_hw_rule(switch_obj, drivers[number])
       IN /\ drivers' = [drivers EXCEPT ![number] = S.d]
          /\ CallEnds(S, "clear_hw_rule", number, switch_obj)
    /\ NoDispatch
    /\ UNCHANGED <<ports, opp_commands, commVars, wireVars, stream, poll_task,
                   light_update_task, done, stopped, link, incandSent>>

(***************************************************************************)
(* The poll task (_poll_sender).  Each action runs from one suspension     *)
(* point to the next.                                                      *)
(***************************************************************************)
\* the chains in the order of "for chain_serial in self.read_input_msg"
RECURSIVE InOrder(_, _)
InOrder(seq, set) ==
    IF seq = <<>> THEN <<>>
    ELSE IF Head(seq) \in set THEN <<Head(seq)>> \o InOrder(Tail(seq), set)
    ELSE InOrder(Tail(seq), set)

PollChains == InOrder(ports, DOMAIN read_input_msg)

\* the task resumes (first run, or the sleep is over), sends the composite
\* read message of the next chain and waits for the drain
PollSend ==
    /\ poll_task.state \in {"ready", "sleep"} /\ ~Parsing
    /\ PollChains # <<>>
    /\ LET i == IF poll_task.state = "sleep" /\ poll_task.i < Len(PollChains)
                THEN poll_task.i + 1 ELSE 1
           c == PollChains[i]
           S == send_to_processor(Call(<<>>), c, read_input_msg[c])
       IN /\ poll_task' = IF S.raised = "none"
                          THEN [poll_task EXCEPT !.state = "drain", !.i = i]
                          ELSE [poll_task EXCEPT !.state = "failed", !.i = i,
                                                 !.error = S.raised]
          /\ CallEnds(S, "_poll_sender", <<>>, <<>>)
    /\ NoDispatch
    /\ UNCHANGED <<ports, opp_commands, commVars, wireVars, stream,
                   light_update_task, done, stopped, link, incandSent, drivers>>

\* writer.drain() of the chain returns: its buffer is empty; the task sleeps
PollDrained ==
    /\ poll_task.state = "drain" /\ ~Parsing
    /\ undrained' = [undrained EXCEPT ![PollChains[poll_task.i]] = 0]
    /\ poll_task' = [poll_task EXCEPT !.state = "sleep"]
    /\ NoDispatch
    /\ UNCHANGED <<ports, opp_commands, commVars, wireVars, stream,
                   light_update_task, done, stopped, link, incandSent, ruleVars>>

\* the poll task runs and never reaches an await
Spinning == poll_task.state = "spin"

\* the task resumes for the first time and read_input_msg is empty: the for
\* loop has no pass, "while True" begins again at once, and the task keeps the
\* event loop
PollSpin ==
    /\ poll_task.state \in {"ready", "spin"} /\ ~Parsing
    /\ PollChains = <<>>
    /\ poll_task' = [poll_task EXCEPT !.state = "spin"]
    /\ lastCall' = [NoCall EXCEPT !.op = "_poll_sender"]
    /\ NoDispatch
    /\ UNCHANGED <<ports, opp_commands, commVars, wireVars, stream,
                   light_update_task, done, stopped, undrained, link,
                   incandSent, drivers>>

(***************************************************************************)
(* Incandescent cards and the lamp task (_update_lights).                  *)
(***************************************************************************)
\* (state >> (8 * k)) & 0xff of a word kept as its set of 1 bits
RECURSIVE ByteFrom(_, _, _)
ByteFrom(w, k, n) ==
    IF n > 7 THEN 0
    ELSE (IF (8 * k + n) \in w THEN 2 ^ n ELSE 0) + ByteFrom(w, k, n + 1)

\* the frame update_incand builds for a card
IncandFrame(card) ==
    LET msg == <<card.addr, INCAND_CMD, INCAND_SET_ON_OFF,
                 ByteFrom(card.newState, 3, 0), ByteFrom(card.newState, 2, 0),
                 ByteFrom(card.newState, 1, 0), ByteFrom(card.newState, 0, 0)>>
    IN Append(msg, calc_crc8_whole_msg(msg))

\* update_incand() from card i on; R = [incands, sent, S]
RECURSIVE UpdateFrom(_, _)
UpdateFrom(R, i) ==
    IF i > Len(R.incands) \/ R.S.raised # "none" THEN R
    ELSE LET card == R.incands[i]
         IN IF card.oldState = card.newState THEN UpdateFrom(R, i + 1)
            ELSE LET S1 == send_to_processor(R.S, card.chain_serial,
                                             IncandFrame(card))
                 IN UpdateFrom(
                        [incands |-> [R.incands EXCEPT ![i].oldState = card.newState],
                         sent |-> IF S1.raised = "none"
                                  THEN (i :> card.newState) @@ R.sent
                                  ELSE R.sent,
                         S |-> S1],
                        i + 1)

update_incand ==
    UpdateFrom([incands |-> opp_incands, sent |-> incandSent, S |-> Call(<<>>)], 1)

\* the state of card i that the transport was last given; 0 before the first
SentState(i) == IF i \in DOMAIN incandSent THEN incandSent[i] ELSE {}

\* the chains in the order of "for connection in self.opp_connection.values()"
LightChains == InOrder(ports, opp_connection)

\* the bits of newState the host's lights switch
LampBits == {0, 1}

\* configure_matrixlight which starts a lamp task whenever none is running
ConfigureMatrixlightAgain(number) ==
    /\ opp_commands = "steady" /\ ~Parsing
    /\ LET known == opp_connection # {} /\ number \in IncandNumbers
       IN /\ light_update_task' =
                 IF known /\ light_update_task.state \in {"none", "cancelled", "failed"}
                 THEN [CreateTask EXCEPT !.created = light_update_task.created + 1]
                 ELSE light_update_task
          /\ lastCall' = [NoCall EXCEPT
                             !.op = "configure_matrixlight", !.number = number,
                             !.raised = IF known THEN "none" ELSE "AssertionError"]
    /\ NoDispatch
    /\ UNCHANGED <<ports, opp_commands, commVars, wireVars, stream, poll_task,
                   done, stopped, undrained, link, incandSent, drivers>>

\* configure_matrixlight(config) with config['number'] resolved to number
ConfigureMatrixlight(number) ==
    /\ opp_commands = "steady" /\ ~Parsing
    /\ LET known == opp_connection # {} /\ number \in IncandNumbers
       IN /\ light_update_task' =
                 IF known /\ light_update_task.state = "none"
                 THEN [CreateTask EXCEPT !.created = light_update_task.created + 1]
                 ELSE light_update_task
          /\ lastCall' = [NoCall EXCEPT
                             !.op = "configure_matrixlight", !.number = number,
                             !.raised = IF known THEN "none" ELSE "AssertionError"]
    /\ NoDispatch
    /\ UNCHANGED <<ports, opp_commands, commVars, wireVars, stream, poll_task,
                   done, stopped, undrained, link, incandSent, drivers>>

\* a configured light is switched: bit b of its card's newState changes
LightSet(i, b) ==
    /\ opp_commands = "steady" /\ ~Parsing
    /\ light_update_task.state # "none"
    /\ i \in 1..Len(opp_incands) /\ b \in opp_incands[i].mask
    /\ opp_incands' = [opp_incands EXCEPT ![i].newState =
                           IF b \in @ THEN @ \ {b} ELSE @ \cup {b}]
    /\ lastCall' = [NoCall EXCEPT !.op = "light"]
    /\ emitted' = <<>> /\ lastMsg' = NoMsg
    /\ UNCHANGED <<ports, opp_commands, opp_connection, opp_inputs, opp_solenoid,
                   read_input_msg, gen2AddrArr, badCRC, minVersion, seeded,
                   versions,
                   commVars, wireVars, stream, poll_task, light_update_task,
                   done, stopped, undrained, link, incandSent, drivers>>

\* the task resumes (first run, or the sleep is over), runs update_incand and
\* waits for the drain of the first connection
LightUpdate ==
    /\ light_update_task.state \in {"ready", "sleep"} /\ ~Parsing
    /\ LET R == update_incand
       IN /\ opp_incands' = R.incands
          /\ incandSent' = R.sent
          /\ CallEnds(R.S, "_update_lights", <<>>, <<>>)
          /\ light_update_task' =
                 IF R.S.raised # "none"
                 THEN [light_update_task EXCEPT !.state = "failed", !.i = 0,
                                                !.error = R.S.raised]
                 ELSE IF LightChains = <<>>
                 THEN [light_update_task EXCEPT !.state = "sleep", !.i = 0]
                 ELSE [light_update_task EXCEPT !.state = "drain", !.i = 1]
    /\ emitted' = <<>> /\ lastMsg' = NoMsg
    /\ UNCHANGED <<ports, opp_commands, opp_connection, opp_inputs, opp_solenoid,
                   read_input_msg, gen2AddrArr, badCRC, minVersion, seeded,
                   versions,
                   commVars, wireVars, stream, poll_task, done, stopped, link,
                   drivers>>

\* writer.drain() of connection i returns; the next drain, or the sleep
LightDrained ==
    /\ light_update_task.state = "drain" /\ ~Parsing
    /\ undrained' = [undrained EXCEPT ![LightChains[light_update_task.i]] = 0]
    /\ light_update_task' =
           IF light_update_task.i < Len(LightChains)
           THEN [light_update_task EXCEPT !.i = @ + 1]
           ELSE [light_update_task EXCEPT !.state = "sleep"]
    /\ NoDispatch
    /\ UNCHANGED <<ports, opp_commands, commVars, wireVars, stream, poll_task,
                   done, stopped, link, incandSent, ruleVars>>

(***************************************************************************)
(* stop(), the done-callback and the transport's faults.                   *)
(***************************************************************************)
\* task.cancel(): a task that waits gets CancelledError at its await and ends
Cancel(task) ==
    IF task.state \in {"ready", "drain", "sleep"}
    THEN [task EXCEPT !.state = "cancelled"]
    ELSE task

\* stop(): after connections.stop() a write to the closed connection is
\* accepted and dropped, or raises
Stop ==
    /\ opp_commands = "steady" /\ ~Parsing /\ ~stopped
    /\ poll_task' = Cancel(poll_task)
    /\ light_update_task' = Cancel(light_update_task)
    /\ \E after \in {"up", "down"} :
          link' = [c \in DOMAIN link |-> IF link[c] = "down" THEN "down" ELSE after]
    /\ stopped' = TRUE
    /\ lastCall' = [NoCall EXCEPT !.op = "stop"]
    /\ NoDispatch
    /\ UNCHANGED <<ports, opp_commands, commVars, wireVars, stream, done,
                   undrained, incandSent, drivers>>

\* future.result() of a task that has ended: the exception it raises
future_result(task) ==
    IF task.state = "cancelled" THEN "CancelledError"
    ELSE IF task.state = "failed" THEN task.error
    ELSE "none"

\* _done(future): what leaves the callback
Done(future) == future_result(future)

\* the event loop runs the done-callback of a task that has ended
DoneCallback(t) ==
    /\ ~Parsing
    /\ done[t] = "none"
    /\ LET task == IF t = "poll" THEN poll_task ELSE light_update_task
       IN /\ task.state \in {"cancelled", "failed"}
          /\ done' = [done EXCEPT ![t] = Done(task)]
    /\ lastCall' = [NoCall EXCEPT !.op = "_done"]
    /\ NoDispatch
    /\ UNCHANGED <<ports, opp_commands, commVars, wireVars, stream, poll_task,
                   light_update_task, stopped, undrained, link, incandSent,
                   drivers>>

\* the serial device of chain c goes away: writes raise from now on
LinkFails(c) ==
    /\ opp_commands = "steady" /\ ~Parsing
    /\ link[c] = "up"
    /\ link' = [link EXCEPT ![c] = "down"]
    /\ lastCall' = [NoCall EXCEPT !.op = "link"]
    /\ NoDispatch
    /\ UNCHANGED <<ports, opp_commands, commVars, wireVars, stream, poll_task,
                   light_update_task, done, stopped, undrained, incandSent,
                   drivers>>

(***************************************************************************)
(* Specification of the rule engine: two chains of two boards each (an     *)
(* incandescent and a solenoid wing; an input wing) are brought up with    *)
(* firmware before or from 0.2.0.0, then the host configures a driver and  *)
(* sets and clears rules on it.  The poll task touches no driver; its      *)
(* steps are in the specification of the tasks.                            *)
(***************************************************************************)
RuleInv == {<<INV_CMD, Board0, Board1, EOM_CMD>>}

RuleCfg ==
    {Rec(Board0, GET_GEN2_CFG, <<WING_INCAND, WING_SOL, 0, 0>>)
       \o Rec(Board1, GET_GEN2_CFG, <<0, WING_INP, 0, 0>>) \o <<EOM_CMD>>}

RuleVers ==
    {Rec(Board0, GET_VERS_CMD, v) \o Rec(Board1, GET_VERS_CMD, v) \o <<EOM_CMD>> :
        v \in {VersOk, VersOld}}

RuleSnapshot ==
    {Append(Rec(b, READ_GEN2_INP_CMD, <<255, 255, 255, 255>>), EOM_CMD) :
        b \in {Board0, Board1}}

\* the coil settings the host configures a driver with: no hold at all, a
\* fine hold next to a coarse one, a fine hold of 0 with allow_enable, a
\* coarse hold below and above 8, and allow_enable alone
HoldConfigs ==
    {[hold_power16 |-> h[1], hold_power |-> h[2], allow_enable |-> h[3],
      recycle |-> FALSE, recycle_factor |-> {}, pulse_ms |-> {30}] :
        h \in {<<{}, {}, FALSE>>, <<{10}, {4}, FALSE>>, <<{0}, {}, TRUE>>,
               <<{}, {4}, FALSE>>, <<{}, {9}, FALSE>>, <<{}, {}, TRUE>>}}

RecycleConfigs ==
    [hold_power16 : {{}}, hold_power : {{}}, allow_enable : {FALSE},
     recycle : {TRUE}, recycle_factor : {{}, {0}, {3}, {8}}, pulse_ms : {{}}]

\* the settings a rule lays over the driver's: none, or a recycle factor
NoOverwrite == [recycle |-> {}, recycle_factor |-> {}]
RuleOverwrites == {NoOverwrite, [recycle |-> {TRUE}, recycle_factor |-> {9}]}

DriverConfigs == HoldConfigs \cup RecycleConfigs

\* the drivers and switches the host names: coil 5, its matching switch 9 and
\* switch 8 of its board, a switch 9 on the other board and on the other
\* chain, an inverted switch, and a channel that is no solenoid
RuleCoils == {<<"A", 0, 5>>, <<"A", 0, 0>>}

RuleSwitches ==
    {[number |-> n, invert |-> FALSE] :
        n \in {<<"A", 0, 9>>, <<"A", 0, 8>>, <<"A", 1, 9>>, <<"B", 0, 9>>}}
    \cup {[number |-> <<"A", 0, 9>>, invert |-> TRUE]}

InitRules == InitFor(<<"A", "B">>) /\ stream = NoStream

NextRules ==
    \/ \E c \in Chains : HsFlush(c) /\ UNCHANGED <<stream, engineVars>>
    \/ \E c \in Chains : \E resp \in GoodProbe : HsProbe(c, resp)
          /\ UNCHANGED <<stream, engineVars>>
    \/ \E c \in Chains : \E resp \in RuleInv : HsInventory(c, resp)
          /\ UNCHANGED <<stream, engineVars>>
    \/ \E c \in Chains : \E resp \in RuleCfg : HsCfg(c, resp)
          /\ UNCHANGED <<stream, engineVars>>
    \/ \E c \in Chains : \E resp \in RuleVers : HsVers(c, resp)
          /\ UNCHANGED <<stream, engineVars>>
    \/ \E c \in Chains : HsSnapshotRead(c) /\ UNCHANGED <<stream, engineVars>>
    \/ \E c \in Chains : \E item \in RuleSnapshot :
          pc[c] = "snapshot" /\ wire[c] = <<>> /\ DeviceSend(c, item)
          /\ UNCHANGED <<stream, engineVars>>
    \/ \E c \in Chains : ParseIter(c) /\ UNCHANGED <<stream, engineVars>>
    \/ \E c \in Chains : ParseReturn(c) /\ UNCHANGED <<stream, engineVars>>
    \/ Initialize /\ UNCHANGED <<stream, taskVars, ruleVars>>
    \/ \E number \in RuleCoils : \E config \in DriverConfigs :
          ConfigureDriver(number, config)
    \/ \E number \in DOMAIN drivers : \E use_hold \in BOOLEAN :
          ReconfigureDriver(number, use_hold)
    \/ \E op \in RuleOps : \E switch_obj \in RuleSwitches :
          \E number \in DOMAIN drivers :
              /\ Len(drivers[number].switches) < MaxSwitches
              /\ SetRule(op, switch_obj, number, NoOverwrite)
    \/ \E switch_obj \in RuleSwitches : \E number \in DOMAIN drivers :
          ClearHwRule(switch_obj, number)

SpecRules == InitRules /\ [][NextRules]_vars

(***************************************************************************)
(* Specification of the rules with settings of their own: one chain is     *)
(* brought up, the host configures coil 5 without hold or with             *)
(* allow_enable, and sets and clears rules that come with or without a     *)
(* recycle factor of their own.                                            *)
(***************************************************************************)
OverwriteConfigs ==
    {c \in HoldConfigs : c.hold_power16 = {} /\ c.hold_power = {}}

InitOverwrites == InitFor(<<"A">>) /\ stream = NoStream

NextOverwrites ==
    \/ \E c \in Chains : HsFlush(c) /\ UNCHANGED <<stream, engineVars>>
    \/ \E c \in Chains : \E resp \in GoodProbe : HsProbe(c, resp)
          /\ UNCHANGED <<stream, engineVars>>
    \/ \E c \in Chains : \E resp \in RuleInv : HsInventory(c, resp)
          /\ UNCHANGED <<stream, engineVars>>
    \/ \E c \in Chains : \E resp \in RuleCfg : HsCfg(c, resp)
          /\ UNCHANGED <<stream, engineVars>>
    \/ \E c \in Chains : \E resp \in RuleVers : HsVers(c, resp)
          /\ UNCHANGED <<stream, engineVars>>
    \/ \E c \in Chains : HsSnapshotRead(c) /\ UNCHANGED <<stream, engineVars>>
    \/ \E c \in Chains : \E item \in RuleSnapshot :
          pc[c] = "snapshot" /\ wire[c] = <<>> /\ DeviceSend(c, item)
          /\ UNCHANGED <<stream, engineVars>>
    \/ \E c \in Chains : ParseIter(c) /\ UNCHANGED <<stream, engineVars>>
    \/ \E c \in Chains : ParseReturn(c) /\ UNCHANGED <<stream, engineVars>>
    \/ Initialize /\ UNCHANGED <<stream, taskVars, ruleVars>>
    \/ \E config \in OverwriteConfigs : ConfigureDriver(<<"A", 0, 5>>, config)
    \/ \E op \in RuleOps : \E switch_obj \in RuleSwitches :
          \E number \in DOMAIN drivers :
              \E config_overwrite \in RuleOverwrites :
                  /\ Len(drivers[number].switches) < MaxSwitches
                  /\ SetRule(op, switch_obj, number, config_overwrite)
    \/ \E switch_obj \in RuleSwitches : \E number \in DOMAIN drivers :
          ClearHwRule(switch_obj, number)

SpecOverwrites == InitOverwrites /\ [][NextOverwrites]_vars

(***************************************************************************)
(* Specification of the tasks: one chain is brought up, the poll task      *)
(* runs, the host configures and switches lights, the lamp task runs, the  *)
(* platform is stopped at any time and the serial device may go away.      *)
(***************************************************************************)
LightNumbers == {<<"A", 0, 0>>, <<"A", 0, 1>>, <<"A", 0, 9>>}

InitTasks == InitFor(<<"A">>) /\ stream = NoStream

NextTasks ==
    \/ \E c \in Chains : HsFlush(c) /\ UNCHANGED <<stream, engineVars>>
    \/ \E c \in Chains : \E resp \in GoodProbe : HsProbe(c, resp)
          /\ UNCHANGED <<stream, engineVars>>
    \/ \E c \in Chains : \E resp \in RuleInv : HsInventory(c, resp)
          /\ UNCHANGED <<stream, engineVars>>
    \/ \E c \in Chains : \E resp \in RuleCfg : HsCfg(c, resp)
          /\ UNCHANGED <<stream, engineVars>>
    \/ \E c \in Chains : \E resp \in RuleVers : HsVers(c, resp)
          /\ UNCHANGED <<stream, engineVars>>
    \/ \E c \in Chains : HsSnapshotRead(c) /\ UNCHANGED <<stream, engineVars>>
    \/ \E c \in Chains : \E item \in RuleSnapshot :
          pc[c] = "snapshot" /\ wire[c] = <<>> /\ DeviceSend(c, item)
          /\ UNCHANGED <<stream, engineVars>>
    \/ \E c \in Chains : ParseIter(c) /\ UNCHANGED <<stream, engineVars>>
    \/ \E c \in Chains : ParseReturn(c) /\ UNCHANGED <<stream, engineVars>>
    \/ Initialize /\ UNCHANGED <<stream, taskVars, ruleVars>>
    \/ PollSend
    \/ PollDrained
    \/ \E number \in LightNumbers : ConfigureMatrixlight(number)
    \/ \E i \in 1..Len(opp_incands) : \E b \in LampBits : LightSet(i, b)
    \/ LightUpdate
    \/ LightDrained
    \/ Stop
    \/ \E t \in {"poll", "light"} : DoneCallback(t)
    \/ \E c \in Chains : LinkFails(c)

SpecTasks == InitTasks /\ [][NextTasks]_vars

(***************************************************************************)
(* Specification of the lamp task's creation: the boards of the chain have *)
(* an incandescent wing or none; the host configures and switches lights,  *)
(* the lamp task runs, the platform is stopped and the link may fail.      *)
(***************************************************************************)
LampCfg ==
    RuleCfg \cup
    {Rec(Board0, GET_GEN2_CFG, <<0, WING_SOL, 0, 0>>)
       \o Rec(Board1, GET_GEN2_CFG, <<0, WING_INP, 0, 0>>) \o <<EOM_CMD>>}

InitLamp == InitFor(<<"A">>) /\ stream = NoStream

NextLamp ==
    \/ \E c \in Chains : HsFlush(c) /\ UNCHANGED <<stream, engineVars>>
    \/ \E c \in Chains : \E resp \in GoodProbe : HsProbe(c, resp)
          /\ UNCHANGED <<stream, engineVars>>
    \/ \E c \in Chains : \E resp \in RuleInv : HsInventory(c, resp)
          /\ UNCHANGED <<stream, engineVars>>
    \/ \E c \in Chains : \E resp \in LampCfg : HsCfg(c, resp)
          /\ UNCHANGED <<stream, engineVars>>
    \/ \E c \in Chains : \E resp \in RuleVers : HsVers(c, resp)
          /\ UNCHANGED <<stream, engineVars>>
    \/ \E c \in Chains : HsSnapshotRead(c) /\ UNCHANGED <<stream, engineVars>>
    \/ \E c \in Chains : \E item \in RuleSnapshot :
          pc[c] = "snapshot" /\ wire[c] = <<>> /\ DeviceSend(c, item)
          /\ UNCHANGED <<stream, engineVars>>
    \/ \E c \in Chains : ParseIter(c) /\ UNCHANGED <<stream, engineVars>>
    \/ \E c \in Chains : ParseReturn(c) /\ UNCHANGED <<stream, engineVars>>
    \/ Initialize /\ UNCHANGED <<stream, taskVars, ruleVars>>
    \/ \E number \in LightNumbers : ConfigureMatrixlight(number)
    \/ \E i \in 1..Len(opp_incands) : \E b \in LampBits : LightSet(i, b)
    \/ LightUpdate
    \/ LightDrained
    \/ Stop
    \/ \E t \in {"poll", "light"} : DoneCallback(t)
    \/ \E c \in Chains : LinkFails(c)

SpecLamp == InitLamp /\ [][NextLamp]_vars

(***************************************************************************)
(* Specification of the tasks of a platform with one port or with none:    *)
(* while the poll task keeps the event loop no call of the host, no        *)
(* callback and no other task runs.                                        *)
(***************************************************************************)
IdlePorts == {<<>>, <<"A">>}

InitIdle == \E p \in IdlePorts : InitFor(p) /\ stream = NoStream

NextIdle ==
    \/ \E c \in Chains : HsFlush(c) /\ UNCHANGED <<stream, engineVars>>
    \/ \E c \in Chains : \E resp \in GoodProbe : HsProbe(c, resp)
          /\ UNCHANGED <<stream, engineVars>>
    \/ \E c \in Chains : \E resp \in RuleInv : HsInventory(c, resp)
          /\ UNCHANGED <<stream, engineVars>>
    \/ \E c \in Chains : \E resp \in RuleCfg : HsCfg(c, resp)
          /\ UNCHANGED <<stream, engineVars>>
    \/ \E c \in Chains : \E resp \in RuleVers : HsVers(c, resp)
          /\ UNCHANGED <<stream, engineVars>>
    \/ \E c \in Chains : HsSnapshotRead(c) /\ UNCHANGED <<stream, engineVars>>
    \/ \E c \in Chains : \E item \in RuleSnapshot :
          pc[c] = "snapshot" /\ wire[c] = <<>> /\ DeviceSend(c, item)
          /\ UNCHANGED <<stream, engineVars>>
    \/ \E c \in Chains : ParseIter(c) /\ UNCHANGED <<stream, engineVars>>
    \/ \E c \in Chains : ParseReturn(c) /\ UNCHANGED <<stream, engineVars>>
    \/ Initialize /\ UNCHANGED <<stream, taskVars, ruleVars>>
    \/ PollSpin
    \/ PollSend
    \/ PollDrained
    \/ \E number \in LightNumbers : ~Spinning /\ ConfigureMatrixlight(number)
    \/ \E i \in 1..Len(opp_incands) : \E b \in LampBits : LightSet(i, b)
    \/ LightUpdate
    \/ LightDrained
    \/ ~Spinning /\ Stop
    \/ \E t \in {"poll", "light"} : ~Spinning /\ DoneCallback(t)

SpecIdle == InitIdle /\ [][NextIdle]_vars

(***************************************************************************)
(* Specification of the poll cycle: two chains are brought up and the poll *)
(* task polls them; nothing else writes to the chains.                     *)
(***************************************************************************)
InitPoll == InitFor(<<"A", "B">>) /\ stream = NoStream

NextPoll ==
    \/ \E c \in Chains : HsFlush(c) /\ UNCHANGED <<stream, engineVars>>
    \/ \E c \in Chains : \E resp \in GoodProbe : HsProbe(c, resp)
          /\ UNCHANGED <<stream, engineVars>>
    \/ \E c \in Chains : \E resp \in RuleInv : HsInventory(c, resp)
          /\ UNCHANGED <<stream, engineVars>>
    \/ \E c \in Chains : \E resp \in RuleCfg : HsCfg(c, resp)
          /\ UNCHANGED <<stream, engineVars>>
    \/ \E c \in Chains : \E resp \in RuleVers : HsVers(c, resp)
          /\ UNCHANGED <<stream, engineVars>>
    \/ \E c \in Chains : HsSnapshotRead(c) /\ UNCHANGED <<stream, engineVars>>
    \/ \E c \in Chains : \E item \in RuleSnapshot :
          pc[c] = "snapshot" /\ wire[c] = <<>> /\ DeviceSend(c, item)
          /\ UNCHANGED <<stream, engineVars>>
    \/ \E c \in Chains : ParseIter(c) /\ UNCHANGED <<stream, engineVars>>
    \/ \E c \in Chains : ParseReturn(c) /\ UNCHANGED <<stream, engineVars>>
    \/ Initialize /\ UNCHANGED <<stream, taskVars, ruleVars>>
    \/ PollSend
    \/ PollDrained

SpecPoll == InitPoll /\ [][NextPoll]_vars

(***************************************************************************)
(* Properties.                                                             *)
(***************************************************************************)
\* some card that exists before and after the step has a different oldState
OldStateChanges ==
    \E i \in 1..Len(opp_inputs) :
        i <= Len(opp_inputs') /\ opp_inputs'[i].oldState # opp_inputs[i].oldState

\* C1: an input-read record whose checksum byte does not match is dropped:
\* badCRC grows by exactly 1, no oldState changes, no transition is emitted and
\* the desynchronized flag is not set; oldState changes and transitions happen
\* only in the dispatch of an input-read record whose checksum matches.
C1_BadChecksumDropped ==
    [][/\ (lastMsg'.via # "none" /\ IsInputRecord(lastMsg'.msg)
              /\ ~ChecksumMatches(lastMsg'.msg))
          => /\ badCRC' = badCRC + 1
             /\ ~OldStateChanges
             /\ Len(opp_inputs') = Len(opp_inputs)
             /\ emitted' = <<>>
             /\ lost_synch' = lost_synch
       /\ (OldStateChanges \/ emitted' # <<>>)
          => /\ lastMsg'.via # "none"
             /\ IsInputRecord(lastMsg'.msg)
             /\ ChecksumMatches(lastMsg'.msg)]_vars

C1_Witness ==
    /\ lastMsg.via = "parse_msg"
    /\ IsMatRecord(lastMsg.msg)
    /\ ~ChecksumMatches(lastMsg.msg)
    /\ opp_commands = "steady"
    /\ badCRC >= 1

\* C2: a checksum-valid steady-state read of a digital card emits exactly one
\* transition for every bit of oldState XOR newState and for no other channel,
\* with state 1 when the bit of newState is 0 and state 0 otherwise, and leaves
\* oldState = newState.
C2_DigitalDiff ==
    [][(/\ lastMsg'.via # "none"
        /\ opp_commands = "steady"
        /\ IsDigRecord(lastMsg'.msg) /\ Len(lastMsg'.msg) = 7
        /\ ChecksumMatches(lastMsg'.msg)
        /\ AddrDict(opp_inputs, lastMsg'.chain_serial, lastMsg'.msg[1], FALSE) # 0)
       => LET i == AddrDict(opp_inputs, lastMsg'.chain_serial, lastMsg'.msg[1], FALSE)
              card == opp_inputs[i]
              newState == Word32(lastMsg'.msg, 3)
              changed == WordXor(card.oldState[1], newState)
          IN /\ \A ch \in 0..31 :
                   Cardinality({k \in 1..Len(emitted') :
                       emitted'[k].num = <<card.chain_serial, card.cardNum, ch>>})
                   = IF ch \in changed THEN 1 ELSE 0
             /\ Len(emitted') = Cardinality(changed)
             /\ \A k \in 1..Len(emitted') :
                   emitted'[k].state = IF emitted'[k].num[3] \in newState THEN 0 ELSE 1
             /\ opp_inputs'[i].oldState = <<newState>>]_vars

\* oldState was 0xFFFFFFFF and the read 0xFFFFFFFE: one transition, channel 0,
\* state 1
C2_Witness ==
    /\ lastMsg.via = "parse_msg"
    /\ opp_commands = "steady"
    /\ lastMsg.msg = Rec(Board0, READ_GEN2_INP_CMD, <<255, 255, 255, 254>>)
    /\ Len(emitted) = 1
    /\ emitted[1].state = 1 /\ emitted[1].num = <<"A", 0, 0>>
    /\ opp_inputs[1].oldState = <<1..31>>

\* C3: a checksum-valid steady-state read of a matrix card reports a change of
\* bit i of bank 0 as channel i + 32 and of bit i of bank 1 as channel i + 64,
\* identifiers that get_hw_switch_states reports for the card.
C3_MatrixChannels ==
    [][(/\ lastMsg'.via # "none"
        /\ opp_commands = "steady"
        /\ IsMatRecord(lastMsg'.msg) /\ Len(lastMsg'.msg) = 11
        /\ ChecksumMatches(lastMsg'.msg)
        /\ AddrDict(opp_inputs, lastMsg'.chain_serial, lastMsg'.msg[1], TRUE) # 0)
       => LET i == AddrDict(opp_inputs, lastMsg'.chain_serial, lastMsg'.msg[1], TRUE)
              card == opp_inputs[i]
              changed0 == WordXor(card.oldState[1], Word32(lastMsg'.msg, 3))
              changed1 == WordXor(card.oldState[2], Word32(lastMsg'.msg, 7))
          IN /\ {emitted'[k].num : k \in 1..Len(emitted')}
                  = {<<card.chain_serial, card.cardNum, b + 32>> : b \in changed0}
                    \cup {<<card.chain_serial, card.cardNum, b + 64>> : b \in changed1}
             /\ \A k \in 1..Len(emitted') : emitted'[k].num \in HwKeys(card)]_vars

\* C4: every record _parse_msg hands to the dispatch is complete: 7 bytes for
\* a digital-input-read command, 11 bytes for a matrix-input-read command.
C4_RecordsComplete ==
    lastMsg.via = "parse_msg"
    => /\ lastMsg.msg[2] = READ_GEN2_INP_CMD => Len(lastMsg.msg) = 7
       /\ lastMsg.msg[2] = READ_MATRIX_INP => Len(lastMsg.msg) = 11

\* C5: on a stream of checksum-valid records and end-markers, however it is
\* cut into chunks, _parse_msg dispatches exactly the records sent, in order,
\* and the bytes of the frames not yet consumed are the carry-over buffer
\* followed by the unread bytes.
Flatten(frames) ==
    LET RECURSIVE Cat(_)
        Cat(i) == IF i > Len(frames) THEN <<>> ELSE frames[i] \o Cat(i + 1)
    IN Cat(1)

C5_ChunkingIrrelevant ==
    \A c \in Chains :
        pc[c] = "ready" =>
            /\ pending[c] # Diverged
            /\ Flatten(pending[c]) = partMsg[c] \o wire[c]

\* C8: a registered chain has every one of its switch-bearing cards seeded
\* from a checksum-valid initial input record.
C8_ReadyImpliesSeeded ==
    \A c \in Chains :
        c \in opp_connection =>
            \A i \in 1..Len(opp_inputs) :
                opp_inputs[i].chain_serial = c => i \in seeded

\* the loop of get_gen2_cfg_resp / vers_resp, on records with good checksums,
\* comes to a record that is cut short or followed by an unexpected byte
RECURSIVE ShortOrMalformed(_, _, _)
ShortOrMalformed(msg, idx, cmd) ==
    IF Len(msg) < idx + 7 THEN TRUE
    ELSE IF msg[idx + 7] # calc_crc8_part_msg(msg, idx, 6) THEN FALSE
    ELSE IF cmd = GET_VERS_CMD /\ SubSeq(msg, idx + 3, idx + 6) = BAD_FW_VERSION
    THEN FALSE
    ELSE IF Len(msg) > idx + 7 /\ msg[idx + 8] = EOM_CMD THEN FALSE
    ELSE IF Len(msg) > idx + 8 /\ msg[idx + 9] = cmd
    THEN ShortOrMalformed(msg, idx + 7, cmd)
    ELSE TRUE

\* C9: a short or malformed configuration or version response during the
\* handshake marks the connection as desynchronized and does not make the
\* handshake fail.
C9_MalformedDesynchronizes ==
    [][\A c \in Chains :
          (/\ lastMsg'.via = "identify" /\ lastMsg'.chain_serial = c
           /\ pc[c] \in {"cfg", "vers"}
           /\ IsGen2Addr(lastMsg'.msg[1])
           /\ lastMsg'.msg[2] = (IF pc[c] = "cfg" THEN GET_GEN2_CFG ELSE GET_VERS_CMD)
           /\ ShortOrMalformed(lastMsg'.msg, 0, lastMsg'.msg[2]))
          => /\ pc'[c] # "failed"
             /\ lost_synch'[c]]_vars

\* some checksum-valid version record of the response carries BAD_FW_VERSION
CarriesBadVersion(msg) ==
    \E k \in 0..(Len(msg) \div 7) :
        /\ Len(msg) >= 7 * k + 7
        /\ IsGen2Addr(msg[7 * k + 1])
        /\ msg[7 * k + 2] = GET_VERS_CMD
        /\ SubSeq(msg, 7 * k + 3, 7 * k + 6) = BAD_FW_VERSION
        /\ msg[7 * k + 7] = calc_crc8_part_msg(msg, 7 * k, 6)

\* C10: when a version record of the version response carries BAD_FW_VERSION,
\* or the minimum version is below MIN_FW after the response, the handshake
\* fails in that step, before the composite read-input message is written,
\* and a failed chain is never registered.
C10_BadFirmwareIsFatal ==
    [][\A c \in Chains :
          /\ (/\ lastMsg'.via = "identify" /\ lastMsg'.chain_serial = c
              /\ pc[c] = "vers"
              /\ \/ CarriesBadVersion(lastMsg'.msg)
                 \/ VersLess(minVersion', MIN_FW))
             => /\ pc'[c] = "failed"
                /\ written'[c] = written[c]
          /\ pc[c] = "failed"
             => /\ pc'[c] = "failed"
                /\ written'[c] = written[c]
                /\ c \notin opp_connection']_vars

HandshakeSteps == {"probe", "inv", "cfg", "vers", "snapshot"}

HandshakeInProgress == \E c \in Chains : pc[c] \in HandshakeSteps

\* the state words of a record, as the initial handlers store them
RecordState(msg) ==
    IF IsMatRecord(msg) THEN <<Word32(msg, 3), Word32(msg, 7)>>
    ELSE <<Word32(msg, 3)>>

\* C7: while some chain's handshake is in progress the handler table holds the
\* initial variants; an input-read record dispatched under the initial
\* variants emits nothing and, when its checksum matches, sets its card's
\* oldState to the record's state; a transition is emitted only under the
\* steady-state variants; the table never goes back from steady to initial.
C7_InitialThenSteady ==
    [][/\ HandshakeInProgress => opp_commands = "initial"
       /\ HandshakeInProgress' => opp_commands' = "initial"
       /\ (lastMsg'.via # "none" /\ IsInputRecord(lastMsg'.msg)
              /\ opp_commands = "initial")
          => /\ emitted' = <<>>
             /\ \A i \in Seeds(lastMsg'.chain_serial, lastMsg'.msg) :
                   opp_inputs'[i].oldState = RecordState(lastMsg'.msg)
       /\ emitted' # <<>> => opp_commands = "steady" /\ opp_commands' = "steady"
       /\ opp_commands = "steady" => opp_commands' = "steady"]_vars

\* chain A, registered, receives a record with a changed input while chain B
\* is in its handshake: oldState takes the new value and nothing is emitted
C7_Witness ==
    /\ pc["A"] = "ready" /\ "B" \in Chains /\ pc["B"] \in HandshakeSteps
    /\ lastMsg.via = "parse_msg" /\ lastMsg.chain_serial = "A"
    /\ lastMsg.msg = Rec(Board0, READ_GEN2_INP_CMD, <<255, 255, 255, 254>>)
    /\ opp_commands = "initial"
    /\ emitted = <<>>
    /\ \E i \in 1..Len(opp_inputs) :
          /\ opp_inputs[i].chain_serial = "A" /\ ~opp_inputs[i].isMatrix
          /\ opp_inputs[i].oldState = RecordState(lastMsg.msg)

\* a 7-byte record that is the stream's frame reached the dispatch table
FrameDelivered == lastMsg.via = "parse_msg" /\ lastMsg.msg = stream.frame

\* the handshake is over and the steady-state handlers are in the table
StreamFlows == opp_commands = "steady"

\* C6: on a stream of valid digital-read frames with bytes inserted or deleted,
\* whatever the frame's payload, from some point on the parser is not
\* desynchronized and every record it delivers is a frame of the stream, and
\* frames keep being delivered; the checksum-valid records delivered are never
\* more than the frames sent.
C6_EventuallyRealigns ==
    /\ <>[](StreamFlows =>
               /\ ~lost_synch["A"]
               /\ lastMsg.via = "parse_msg" => lastMsg.msg = stream.frame)
    /\ []<>(StreamFlows => FrameDelivered)
    /\ [](stream.lead >= 0)

(***************************************************************************)
(* The order of the handshake.                                             *)
(***************************************************************************)
StepOrder ==
    {<<"idle", "probe">>, <<"probe", "inv">>, <<"inv", "cfg">>,
     <<"cfg", "vers">>, <<"vers", "snapshot">>, <<"snapshot", "ready">>}

\* the requests a step of chain c may write when it goes from step a to step b
StepRequests(c, a, b) ==
    IF a = "idle" /\ b = "probe" THEN {<< <<EOM_CMD>> >>}
    ELSE IF a = "probe" /\ b \in {"probe", "failed"} THEN {<< <<EOM_CMD>> >>}
    ELSE IF a = "probe" /\ b = "inv"
    THEN {<< <<EOM_CMD>>, <<INV_CMD, EOM_CMD>> >>}
    ELSE IF a = "inv" /\ b = "cfg" /\ c \in DOMAIN gen2AddrArr'
    THEN {<< SendCmd(gen2AddrArr'[c], GET_GEN2_CFG) >>}
    ELSE IF a = "cfg" /\ b = "vers" /\ c \in DOMAIN gen2AddrArr'
    THEN {<< SendCmd(gen2AddrArr'[c], GET_VERS_CMD) >>}
    ELSE IF a = "vers" /\ b = "snapshot" /\ c \in DOMAIN read_input_msg'
    THEN {<< read_input_msg'[c] >>}
    ELSE {}

\* the requests of a whole handshake, as chain c has written them
AllRequestsWritten(c) ==
    LET w == written[c]
        n == Len(w)
    IN /\ n >= 6
       /\ \A i \in 1..(n - 4) : w[i] = <<EOM_CMD>>
       /\ w[n - 3] = <<INV_CMD, EOM_CMD>>
       /\ w[n - 2] = SendCmd(gen2AddrArr[c], GET_GEN2_CFG)
       /\ w[n - 1] = SendCmd(gen2AddrArr[c], GET_VERS_CMD)
       /\ w[n] = read_input_msg[c]

\* C11: a chain's handshake goes through flush, probe, inventory,
\* configuration query, version query, initial snapshot and registration in
\* this order; a request is written only by the step that consumed the
\* response to the request before it; the chain is registered only from the
\* snapshot step, after all requests were written and no step failed.
C11_HandshakeInOrder ==
    [][\A c \in Chains :
        /\ pc'[c] # pc[c]
           => \/ <<pc[c], pc'[c]>> \in StepOrder
              \/ pc'[c] \in {"failed", "crashed"}
        /\ written'[c] # written[c]
           => /\ \E req \in StepRequests(c, pc[c], pc'[c]) :
                    written'[c] = written[c] \o req
              /\ pc[c] \in {"inv", "cfg", "vers"}
                 => /\ lastMsg'.via = "identify"
                    /\ lastMsg'.chain_serial = c
        /\ (c \in opp_connection' /\ c \notin opp_connection)
           => /\ pc[c] = "snapshot" /\ pc'[c] = "ready"
              /\ AllRequestsWritten(c)
        /\ pc'[c] = "ready" => c \in opp_connection']_vars

\* a chain is registered after a probe that had to be repeated
C11_Witness ==
    /\ pc["A"] = "ready" /\ "A" \in opp_connection
    /\ count["A"] >= 2
    /\ AllRequestsWritten("A")

(***************************************************************************)
(* Properties of the lamp task, the writers and the shutdown.              *)
(***************************************************************************)
\* C12: an incandescent card's oldState is set to newState only after the
\* update frame was handed to the transport: in every state, also after a send
\* that failed, oldState is the state the transport was last given.
C12_OldStateIsTransmitted ==
    \A i \in 1..Len(opp_incands) : opp_incands[i].oldState = SentState(i)

\* C13: every writer to a chain's transport awaits the drain before the next
\* write to that transport: no frame is written to a chain while a frame
\* written earlier has not been followed by a drain.
C13_DrainBeforeNextWrite == \A c \in Chains : undrained[c] <= 1

\* C14: after stop() the poll task and the lamp task are cancelled, and
\* neither loop hands another frame to a transport, whatever calls of the host
\* came before or come after stop().
C14_NoLoopAfterStop ==
    stopped
    => /\ poll_task.state \in {"none", "cancelled", "failed"}
       /\ light_update_task.state \in {"none", "cancelled", "failed"}
       /\ lastCall.op \in {"_poll_sender", "_update_lights"}
          => lastCall.frames = <<>>

\* C15: the done-callback of a task that ended by cancellation returns without
\* raising; what it raises is the error of a task that failed.
C15_DoneQuietOnCancel ==
    /\ poll_task.state = "cancelled" => done.poll = "none"
    /\ light_update_task.state = "cancelled" => done.light = "none"
    /\ done.poll # "none"
       => poll_task.state = "failed" /\ done.poll = poll_task.error
    /\ done.light # "none"
       => light_update_task.state = "failed"
          /\ done.light = light_update_task.error

(***************************************************************************)
(* Properties of the rule engine.                                          *)
(***************************************************************************)
\* the hold value as the hold-value policy states it: the fine setting when
\* one is given, else the coarse setting doubled and at most 16, else 16 with
\* allow_enable, else 0
PolicyHold(config) ==
    IF config.hold_power16 # {} THEN Val(config.hold_power16)
    ELSE IF config.hold_power # {}
    THEN IF Val(config.hold_power) * 2 >= 16 THEN 16 ELSE Val(config.hold_power) * 2
    ELSE IF config.allow_enable THEN 16
    ELSE 0

\* C16: the hold value of a coil is in 0..16 and follows the priority: the
\* explicit fine-grained setting whenever one is present, else the coarse
\* setting doubled with 8 or more giving 16, else 16 when continuous enable is
\* allowed, else 0.
C16_HoldValuePolicy ==
    \A n \in DOMAIN drivers :
        /\ get_hold_value(drivers[n].config) \in 0..16
        /\ get_hold_value(drivers[n].config) = PolicyHold(drivers[n].config)

\* the configuration frame of the last call, when reconfigure_driver sent one
CfgFrame == lastCall.frames[Len(lastCall.frames)].msg
HasFlag(cmd, flag) == (cmd \div flag) % 2 = 1
Reconfigured == lastCall.use_hold # {}
Sent == Reconfigured /\ lastCall.raised = "none"

\* C17: reconfigure_driver with use_hold false sends hold 0 with the
\* auto-clear flag and leaves the driver pulsable; with use_hold true a hold of
\* 0 is fatal, a hold of 16 or more is sent as the full-power flag with hold
\* field 0 on firmware from 0.2.0.0 and as hold 15 without the flag on older
\* firmware, and a hold of 1..15 is sent as it is with neither flag.
C17_ReconfigureDriver ==
    Reconfigured =>
        LET d == drivers[lastCall.number]
            hold == get_hold_value(d.config)
        IN IF lastCall.use_hold = {FALSE}
           THEN /\ d.can_be_pulsed
                /\ Sent => /\ CfgFrame[6] % 16 = 0
                           /\ HasFlag(CfgFrame[4], CFG_SOL_AUTO_CLR)
                           /\ ~HasFlag(CfgFrame[4], CFG_SOL_ON_OFF)
           ELSE /\ hold = 0 => lastCall.raised = "AssertionError"
                /\ (Sent /\ hold >= 16 /\ HasSolInp)
                   => /\ HasFlag(CfgFrame[4], CFG_SOL_ON_OFF)
                      /\ CfgFrame[6] % 16 = 0
                      /\ ~HasFlag(CfgFrame[4], CFG_SOL_AUTO_CLR)
                /\ (Sent /\ hold >= 16 /\ ~HasSolInp)
                   => /\ ~HasFlag(CfgFrame[4], CFG_SOL_ON_OFF)
                      /\ CfgFrame[6] % 16 = 15
                      /\ ~HasFlag(CfgFrame[4], CFG_SOL_AUTO_CLR)
                /\ (Sent /\ hold \in 1..15)
                   => /\ ~HasFlag(CfgFrame[4], CFG_SOL_ON_OFF)
                      /\ CfgFrame[6] % 16 = hold
                      /\ ~HasFlag(CfgFrame[4], CFG_SOL_AUTO_CLR)

\* a driver whose hold is 16 was reconfigured with hold on the older firmware:
\* the frame carries hold 15
C17_Witness ==
    /\ Sent /\ lastCall.use_hold = {TRUE} /\ ~HasSolInp
    /\ get_hold_value(drivers[lastCall.number].config) >= 16
    /\ CfgFrame[6] % 16 = 15

\* the switch channel that matches coil channel n
MatchingChannel(n) == ((n \div 4) % 4) * 8 + (n % 4)

\* C18: on firmware from 0.2.0.0 the reconfigure frame carries the use-switch
\* flag exactly when the switch that matches the driver's channel is among the
\* switches recorded as mapped to the driver; after a rule has mapped the
\* matching switch the frame carries the flag.
C18_UseSwitchMirrorsMapping ==
    (Sent /\ HasSolInp) =>
        LET d == drivers[lastCall.number]
        IN HasFlag(CfgFrame[4], CFG_SOL_USE_SWITCH)
           <=> \E i \in 1..Len(d.switches) :
                  d.switches[i].v[3] = MatchingChannel(d.number[3])

\* the fit of a switch and a coil as the fit rule states it
PolicyFit(sw_number, number) ==
    /\ sw_number[1] = number[1] /\ sw_number[2] = number[2]
    /\ HasSolInp \/ sw_number[3] = MatchingChannel(number[3])

\* C19: the fit check of a rule succeeds on firmware from 0.2.0.0 exactly when
\* switch and coil are on the same chain and board, and on older firmware
\* exactly when they are on the same chain and board and the switch channel
\* is the coil channel reordered (coil 5 fits switch 9 only); every other
\* combination is a fatal error.
C19_CoilAndSwitchFit ==
    (/\ lastCall.op \in {"set_pulse_on_hit_rule",
                         "set_pulse_on_hit_and_release_rule"}
     /\ ~lastCall.switch.invert)
    => /\ Reconfigured <=> PolicyFit(lastCall.switch.number, lastCall.number)
       /\ ~Reconfigured => lastCall.raised = "AssertionError"

\* on the older firmware a rule with switch 9 was set on coil 5
C19_Witness ==
    /\ lastCall.op = "set_pulse_on_hit_rule" /\ ~HasSolInp
    /\ lastCall.number = <<"A", 0, 5>>
    /\ lastCall.switch = [number |-> <<"A", 0, 9>>, invert |-> FALSE]
    /\ Reconfigured /\ lastCall.raised = "none"

CalledWith(n) == [drivers[n] EXCEPT !.config = lastCall'.config]
\* the hardware driver after a call that ended as S
After(S, n) == [S.d EXCEPT !.config = drivers[n].config]

FailedClean ==
    /\ lastCall'.raised = "AssertionError"
    /\ lastCall'.frames = <<>>
    /\ drivers' = drivers

\* C22: the four-way rule with a disable switch always fails, the enable rule
\* fails when the hold value of the coil is 0; in both failures no frame is
\* written and use_switch, the mapped switches and can_be_pulsed are as before.
C22_UnsupportedRulesFailClean ==
    [][/\ lastCall'.op = "set_pulse_on_hit_and_enable_and_release_and_disable_rule"
          => FailedClean
       /\ (/\ lastCall'.op = "set_pulse_on_hit_and_enable_and_release_rule"
           /\ get_hold_value(lastCall'.config) = 0)
          => FailedClean]_vars

\* the enable rule was called with a fitting switch on a coil whose hold
\* value is 0, and failed
C22_Witness ==
    /\ lastCall.op = "set_pulse_on_hit_and_enable_and_release_rule"
    /\ get_hold_value(lastCall.config) = 0
    /\ ~lastCall.switch.invert
    /\ verify_coil_and_switch_fit(lastCall.switch.number, lastCall.number)
    /\ lastCall.raised = "AssertionError"
    /\ lastCall.frames = <<>>

\* the off-time factor as its policy states it
PolicyFactor(config) ==
    IF ~config.recycle THEN 0
    ELSE IF config.recycle_factor # {} THEN Val(config.recycle_factor)
    ELSE 2

\* the hold field reconfigure_driver sends for the hold value it computed
HoldField ==
    LET hold == get_hold_value(lastCall.config)
    IN IF lastCall.use_hold = {FALSE} THEN 0
       ELSE IF hold >= 16 THEN (IF HasSolInp THEN 0 ELSE 15)
       ELSE hold

\* C28: in every configuration frame the hold field is in 0..15 and the
\* off-time factor in 0..7: 0 without recycle, the explicit factor when it is
\* at most 7, else 2, and an explicit factor above 7 is fatal; the packed
\* byte is hold + 16 * factor, one byte, with no carry between the nibbles.
C28_PackedByte ==
    Reconfigured =>
        /\ (/\ lastCall.config.recycle /\ lastCall.config.recycle_factor # {}
            /\ Val(lastCall.config.recycle_factor) > 7)
           => lastCall.raised = "AssertionError"
        /\ Sent => /\ CfgFrame[6] \in 0..255
                   /\ HoldField \in 0..15
                   /\ CfgFrame[6] % 16 = HoldField
                   /\ PolicyFactor(lastCall.config) \in 0..7
                   /\ CfgFrame[6] \div 16 = PolicyFactor(lastCall.config)

\* C30: a rule setter that fails with a configuration error has written no
\* frame, and use_switch, the mapped switches and can_be_pulsed of the driver
\* are as they were before the call.
C30_FailedRuleLeavesNoTrace ==
    [][(/\ lastCall'.op \in {"set_pulse_on_hit_rule",
                             "set_pulse_on_hit_and_release_rule",
                             "set_pulse_on_hit_and_enable_and_release_rule"}
        /\ lastCall'.raised = "AssertionError")
       => /\ lastCall'.frames = <<>>
          /\ drivers' = drivers]_vars

(***************************************************************************)
(* Properties of repeated reads and of the moment oldState changes.        *)
(***************************************************************************)
\* the last step delivered a checksum-valid input read to the steady-state
\* handler of a card that exists
ValidReadDelivered ==
    /\ lastMsg.via # "none" /\ opp_commands = "steady"
    /\ IsInputRecord(lastMsg.msg) /\ ChecksumMatches(lastMsg.msg)
    /\ AddrDict(opp_inputs, lastMsg.chain_serial, lastMsg.msg[1],
                IsMatRecord(lastMsg.msg)) # 0

\* C23: when a checksum-valid input read has been delivered to the
\* steady-state handler, digital or matrix, delivering the same read again
\* right after it emits no transition and leaves every oldState as it is.
C23_RepeatedReadIsSilent ==
    ValidReadDelivered
    => LET Q == process_received_message(Plat, lastMsg.chain_serial, lastMsg.msg)
       IN /\ Q.events = <<>>
          /\ Q.opp_inputs = opp_inputs
          /\ Q.raised = "none"

\* a digital read that emitted transitions was delivered
C23_Witness ==
    /\ ValidReadDelivered /\ IsDigRecord(lastMsg.msg)
    /\ emitted # <<>>

\* C24: the oldState of a card changes as a whole: whenever the switch
\* callback is invoked, the oldState of every card (both banks of a matrix
\* card together) is the value before the read being processed or the value
\* after it, never a mix; between the handlers no other state is seen.
C24_OldStateWhole ==
    [][\A k \in 1..Len(emitted') :
          \A i \in 1..Len(opp_inputs) :
              emitted'[k].oldState[i] \in {opp_inputs[i].oldState,
                                           opp_inputs'[i].oldState}]_vars

(***************************************************************************)
(* Properties of the probe phase.                                          *)
(***************************************************************************)
\* the probe end-markers written to chain c: the end-markers written alone,
\* less the one that flushes
ProbesWritten(c) ==
    LET n == Cardinality({i \in 1..Len(written[c]) : written[c][i] = <<EOM_CMD>>})
    IN IF n = 0 THEN 0 ELSE n - 1

InventorySent(c) ==
    \E i \in 1..Len(written[c]) : written[c][i] = <<INV_CMD, EOM_CMD>>

\* C25: the probe phase ends: at most 100 probe end-markers are written after
\* the one that flushes; a pass whose response begins with the end-marker
\* leaves the loop and sends the inventory command; the 100th pass without
\* such a response fails for good, the inventory command is never sent and
\* the chain is never registered.
C25_ProbeTerminates ==
    [][\A c \in Chains :
          /\ count'[c] <= 100 /\ ProbesWritten(c)' <= 100
          /\ ProbesWritten(c)' = count'[c]
          /\ (pc[c] = "probe" /\ count'[c] # count[c])
             => \/ pc'[c] = "inv" /\ InventorySent(c)'
                \/ pc'[c] = "probe" /\ count'[c] < 100 /\ ~InventorySent(c)'
                \/ pc'[c] = "failed" /\ count'[c] = 100 /\ ~InventorySent(c)'
          /\ (\E resp \in ProbeResps :
                 Len(resp) >= 1 /\ resp[1] = EOM_CMD /\ HsProbe(c, resp))
             => pc'[c] = "inv"
          /\ pc[c] = "failed"
             => /\ pc'[c] = "failed" /\ written'[c] = written[c]
                /\ c \notin opp_connection']_vars

\* 100 probes went unanswered: the chain has failed and no inventory command
\* was sent
C25_Witness ==
    /\ pc["A"] = "failed" /\ count["A"] = 100
    /\ ProbesWritten("A") = 100
    /\ ~InventorySent("A") /\ "A" \notin opp_connection

(***************************************************************************)
(* Properties of the poll task.                                            *)
(***************************************************************************)
\* the poll task sends in this step
PollSends == poll_task.state \in {"ready", "sleep"} /\ poll_task'.state = "drain"

\* the poll task begins to sleep in this step
PollSleeps == poll_task.state = "drain" /\ poll_task'.state = "sleep"

\* C26: a send of the poll task is the composite read-input message of one
\* chain, the chains are taken in order, the buffer of the chain sent before
\* has drained, and the task sleeps once in a cycle, after the message of the
\* last chain.
C26_PollCycle ==
    [][/\ PollSends
          => /\ lastCall'.frames =
                    <<[chain_serial |-> PollChains[poll_task'.i],
                       msg |-> read_input_msg[PollChains[poll_task'.i]]]>>
             /\ poll_task'.i = IF poll_task.state = "sleep"
                                  /\ poll_task.i < Len(PollChains)
                               THEN poll_task.i + 1 ELSE 1
             /\ poll_task.state = "sleep"
                => undrained[PollChains[poll_task.i]] = 0
       /\ PollSleeps => poll_task.i = Len(PollChains)]_vars

(***************************************************************************)
(* Properties of the lamp task's creation.                                 *)
(***************************************************************************)
\* C27: a lamp task is created only in a configure_matrixlight call that
\* returns a light of an incandescent card; a call that raises creates none;
\* without an incandescent card no task is ever created; and the platform
\* creates at most one lamp task, also after the task was cancelled or failed.
C27_OneLampTask ==
    [][/\ light_update_task'.created <= 1
       /\ light_update_task'.created # light_update_task.created
          => /\ light_update_task.state = "none"
             /\ light_update_task'.state = "ready"
             /\ lastCall'.op = "configure_matrixlight"
             /\ lastCall'.raised = "none"
             /\ lastCall'.number \in IncandNumbers
       /\ (\E number \in LightNumbers :
              ConfigureMatrixlight(number) /\ lastCall'.raised # "none")
          => light_update_task' = light_update_task
       /\ opp_incands' = <<>> => light_update_task' = NoTask]_vars

\* the lamp task was cancelled by stop(), a later configure_matrixlight call
\* returned a light, and the platform has still created one lamp task
C27_Witness ==
    /\ stopped /\ light_update_task.state = "cancelled"
    /\ light_update_task.created = 1
    /\ lastCall.op = "configure_matrixlight" /\ lastCall.raised = "none"

(***************************************************************************)
(* Properties of the version step.                                         *)
(***************************************************************************)
\* the offsets of the checksum-valid version records of a response
ValidVersionRecords(msg) ==
    {k \in 0..(Len(msg) \div 7) :
        /\ Len(msg) >= 7 * k + 7
        /\ IsGen2Addr(msg[7 * k + 1])
        /\ msg[7 * k + 2] = GET_VERS_CMD
        /\ msg[7 * k + 7] = calc_crc8_part_msg(msg, 7 * k, 6)}

VersionAt(msg, k) == SubSeq(msg, 7 * k + 3, 7 * k + 6)

\* C29: for a registered chain, every board of its inventory has a
\* checksum-valid record in the chain's version response, and the minimum
\* version is the smallest version of those records, is at least MIN_FW and
\* is not the initial 0xffffffff.
C29_ReadyMeansVersioned ==
    \A c \in opp_connection :
        LET msg == versions[c]
            valid == ValidVersionRecords(msg)
        IN /\ \A i \in 1..Len(gen2AddrArr[c]) :
                 \E k \in valid : msg[7 * k + 1] = gen2AddrArr[c][i]
           /\ \E k \in valid : minVersion = VersionAt(msg, k)
           /\ \A k \in valid : ~VersLess(VersionAt(msg, k), minVersion)
           /\ ~VersLess(minVersion, MIN_FW)
           /\ minVersion # InitMinVersion

(***************************************************************************)
(* Properties of the recorded switch list.                                 *)
(***************************************************************************)
\* C31: no driver's recorded switch list holds the same switch twice; after
\* clear_hw_rule(S, C) the switch S is absent from the list of C, and when S
\* was the only switch recorded for C the driver is no longer
\* switch-triggered.
C31_SwitchRecordedOnce ==
    [][/\ \A n \in DOMAIN drivers' :
             \A i, j \in 1..Len(drivers'[n].switches) :
                 PyEq(drivers'[n].switches[i], drivers'[n].switches[j]) => i = j
       /\ (lastCall'.op = "clear_hw_rule" /\ lastCall'.raised = "none")
          => LET n == lastCall'.number
                 sw == PyStr(lastCall'.switch.number)
             IN /\ ~PyIn(sw, drivers'[n].switches)
                /\ (\A i \in 1..Len(drivers[n].switches) :
                       PyEq(sw, drivers[n].switches[i]))
                   => ~drivers'[n].use_switch]_vars

(***************************************************************************)
(* Properties of the poll task's suspension.                               *)
(***************************************************************************)
\* the poll task runs in this step: it is resumed and leaves the state it
\* waited in
PollRuns ==
    /\ poll_task.state \in {"ready", "sleep"}
    /\ poll_task'.state \notin {poll_task.state, "cancelled"}

\* C32: whenever the poll task runs it reaches a suspension point, the drain
\* or the sleep, or ends with an error, for any number of chains with a
\* composite read-input message including none; it never keeps the event
\* loop, so the calls of the host and the other tasks are never shut out.
C32_PollSuspends ==
    [][/\ PollRuns => poll_task'.state \in {"drain", "sleep", "failed"}
       /\ ~Spinning']_vars

(***************************************************************************)
(* Properties of the parser's loop.                                        *)
(***************************************************************************)
\* the variant of the loop of _parse_msg: two for every byte of the buffer,
\* one for the desynchronized flag
ParseVariant(c) == 2 * Len(partMsg[c]) + (IF lost_synch[c] THEN 1 ELSE 0)

\* C33: _parse_msg terminates: whenever an iteration of its loop is due, the
\* branch it takes cuts at least one byte off the buffer or clears the
\* desynchronized flag; every iteration that runs removes at least one byte
\* or clears the flag, or ends with the exception of a handler, and so lowers
\* the loop's variant; and when _parse_msg returns fewer than 7 bytes remain
\* in the buffer.
C33_ParseTerminates ==
    [][\A c \in Chains :
          /\ (inParse'[c] /\ strlen'[c] >= 7)
             => (\/ ParseStep(c).n >= 1
                 \/ lost_synch[c] /\ ~ParseStep(c).lost)'
          /\ (inParse[c] /\ strlen[c] >= 7)
             => \/ ~inParse'[c] /\ pc'[c] \in {"failed", "crashed"}
                \/ /\ inParse'[c]
                   /\ \/ Len(partMsg'[c]) < Len(partMsg[c])
                      \/ lost_synch[c] /\ ~lost_synch'[c]
                   /\ ParseVariant(c)' < ParseVariant(c)
          /\ (inParse[c] /\ ~inParse'[c] /\ pc'[c] \notin {"failed", "crashed"})
             => Len(partMsg'[c]) < 7]_vars

\* _parse_msg has returned with the chain desynchronized and bytes carried
\* over
C33_Witness ==
    /\ pc["A"] = "ready" /\ ~inParse["A"] /\ lost_synch["A"]
    /\ Len(partMsg["A"]) \in 1..6
    /\ opp_commands = "steady"

(***************************************************************************)
(* Properties of the digital handler and get_hw_switch_states.             *)
(***************************************************************************)
\* C34: every transition the steady digital handler emits is for a channel of
\* the card's mask, its identifier is one that get_hw_switch_states reports,
\* and the value get_hw_switch_states returns for it is the state of the
\* transition.
C34_EmitsOnlyMaskedChannels ==
    (/\ opp_commands = "steady" /\ lastMsg.via = "parse_msg"
     /\ IsDigRecord(lastMsg.msg))
    => \A k \in 1..Len(emitted) :
          LET e == emitted[k]
              i == AddrDict(opp_inputs, lastMsg.chain_serial, lastMsg.msg[1], FALSE)
              hw_states == get_hw_switch_states(opp_inputs)
          IN /\ i # 0
             /\ e.num[3] \in opp_inputs[i].mask
             /\ e.num \in HwKeys(opp_inputs[i])
             /\ e.num \in DOMAIN hw_states
             /\ hw_states[e.num] = e.state

====
